---- MODULE Spec2Model ----
(***************************************************************************)
(* A state-machine model of the mcp-run command broker of dstoc/cladding:  *)
(* the policy engine (policy.rs), the executor (executor.rs) and the raw   *)
(* streaming endpoint (raw.rs).                                            *)
(*                                                                         *)
(* Conventions.  A Rust Option is the empty set (None) or a singleton      *)
(* (Some(v)); a Result is [ok |-> TRUE, value] or [ok |-> FALSE, error].   *)
(* A filesystem path and a command token are sequences of components, the  *)
(* string split on '/': <<"echo">> is the bare token echo, <<"","bin",     *)
(* "echo">> is /bin/echo; a token contains '/' iff it has more than one    *)
(* component and is absolute iff its first component is empty.  A string   *)
(* map (BTreeMap<String,String>) is a function from a finite set of keys.  *)
(***************************************************************************)
EXTENDS Integers, Sequences, FiniteSets, TLC

VARIABLES
    \* ---- policy engine and the requests validated against it
    sources,      \* PolicyEngine.sources
    policyDir,    \* the policy directory on disk
    policyFile,   \* the legacy JSON policy file on disk
    state,        \* PolicyEngine.state: the installed PolicySnapshot
    loader,       \* the reload() call in progress, if any
    req,          \* the request (or direct validate_invocation call) in progress
    lastInstall,  \* history: the load result the installed snapshot was made from
    modeHistory,  \* history: the modes of the snapshots installed so far, in order
    dirty,        \* history: the policy sources changed since the last load began
    editsLeft,    \* the edits of the policy sources still to come
    reloadsLeft,  \* the reload() calls still to come
    \* ---- executor and raw endpoint
    envs,         \* build_command_env in progress, for two callers side by side
    capture,      \* read_limited and finalize_capture over one output stream
    raw,          \* stream_process_events and the tasks around it
    \* ---- remote client
    remote,       \* run_remote_from_env and the response it reads
    \* ---- broker process
    lookup,       \* resolve_executable_path under one PATH and working directory
    watcher,      \* start_watcher: the notifier thread and the debounce task
    tool,         \* run_network_tool_impl: the child, its pipes and the reader tasks
    net,          \* resolve_network_settings over one subnet
    legacy        \* validate_legacy_invocation over one policy and invocation

policyVars ==
    <<sources, policyDir, policyFile, state, loader, req, lastInstall, modeHistory, dirty,
      editsLeft, reloadsLeft>>

executorVars == <<envs, capture, raw, remote>>

brokerVars == <<lookup, watcher, tool, net, legacy>>

vars == <<policyVars, executorVars, brokerVars>>

\* the edits of the policy sources and the reload() calls of one behaviour of
\* Spec, which follows the engine through failure and recovery
MaxEdits == 2

MaxReloads == 2

\* the same, of one behaviour of SpecRequests, which runs every kind of request
\* with every input against a reload
MaxRequestEdits == 1

MaxRequestReloads == 1

\* the variables set in the broker's environment and in one caller's env map
MaxBrokerVars == 2

MaxCallerVars == 1

\* MAX_OUTPUT_BYTES (1024 * 1024 in executor.rs) scaled down: the cap is the
\* only quantity read_limited compares a length with, so the cases of the
\* loop are the same at every cap that leaves room for the marker text
MAX_OUTPUT_BYTES == 18

\* the length of the read buffer of read_limited ([0u8; 8192]), scaled down
ReadBufferLen == 8

\* the longest output stream of a child
MaxStreamLen == 21

\* the capacity of the reader channel of stream_process_events and of the
\* body channel of raw_handler (mpsc::channel(64) both), scaled down
ReaderChannelCap == 1

BodyChannelCap == 1

\* the chunks a child writes to one of its output streams
MaxChunks == 2

\* the lines of a response body read by the remote client
MaxEvents == 4

\* the calls of start_watcher on one engine, and the filesystem events its
\* notifier thread receives
MaxCalls == 2

MaxSignals == 3

\* the bytes a pipe between the child and a reader task holds
PipeCapacity == 2

\* the bytes of the largest chunk the client reads, in pieces of a line
MaxChunkLen == 4

\* the arguments of one run of the remote client
MaxArgs == 4

None == {}

Some(v) == {v}

\* Option::unwrap
Unwrap(o) == CHOOSE v \in o : TRUE

EmptyMap == [k \in {} |-> ""]

\* a message without a file or an index in it
Text(msg) == [msg |-> msg, file |-> "", index |-> -1]

\* a message naming a file or an argument
TextAbout(msg, file) == [msg |-> msg, file |-> file, index |-> -1]

\* a message naming a position and an argument
TextAt(msg, index, arg) == [msg |-> msg, file |-> arg, index |-> index]

(***************************************************************************)
(* The host filesystem in which executables are resolved.                  *)
(***************************************************************************)
HostEntries ==
    { [path |-> <<"", "bin">>, kind |-> "dir", exec |-> TRUE, target |-> <<>>],
      [path |-> <<"", "bin", "echo">>, kind |-> "file", exec |-> TRUE, target |-> <<>>],
      [path |-> <<"", "bin", "sh">>, kind |-> "symlink", exec |-> TRUE,
       target |-> <<"", "bin", "dash">>],
      [path |-> <<"", "bin", "dash">>, kind |-> "file", exec |-> TRUE, target |-> <<>>],
      [path |-> <<"", "srv">>, kind |-> "dir", exec |-> TRUE, target |-> <<>>],
      [path |-> <<"", "srv", "data">>, kind |-> "file", exec |-> FALSE, target |-> <<>>],
      [path |-> <<"", "srv", "echo">>, kind |-> "file", exec |-> TRUE, target |-> <<>>],
      [path |-> <<"", "srv", "sh">>, kind |-> "file", exec |-> FALSE, target |-> <<>>] }

\* std::env::var_os("PATH") of the broker, split on ':'
HostPath == << <<"", "usr", "local", "bin">>, <<"", "bin">> >>

\* std::env::current_dir() of the broker
HostCwd == <<"", "srv">>

HasEntry(p) == \E e \in HostEntries : e.path = p

Entry(p) == CHOOSE e \in HostEntries : e.path = p

\* std::fs::canonicalize: the path with a final symlink followed; None when
\* nothing exists there
Canonicalize(p) ==
    IF ~HasEntry(p) THEN None
    ELSE IF Entry(p).kind # "symlink" THEN Some(p)
    ELSE IF HasEntry(Entry(p).target) /\ Entry(Entry(p).target).kind # "symlink"
         THEN Some(Entry(p).target)
         ELSE None

\* Path::is_file: follows symlinks
IsFile(p) == Canonicalize(p) # None /\ Entry(Unwrap(Canonicalize(p))).kind = "file"

\* metadata().permissions().mode() & 0o111 != 0: follows symlinks
HasExecBit(p) == Canonicalize(p) # None /\ Entry(Unwrap(Canonicalize(p))).exec

ContainsSlash(command) == Len(command) > 1

IsAbsolute(p) == Len(p) > 0 /\ p[1] = ""

\* the file a path names in a process whose working directory is cwd: cwd.join(path),
\* for the relative paths of the model (no "." or "..")
Located(cwd, p) == IF IsAbsolute(p) THEN p ELSE cwd \o p

Ok(v) == [ok |-> TRUE, value |-> v]

Err(e) == [ok |-> FALSE, error |-> e]

\* candidate.is_file() and an execute bit: the PATH loop's two `continue` tests
ExecutableCandidate(p) == IsFile(p) /\ HasExecBit(p)

\* the PATH loop: directory.join(command) of the first directory whose candidate
\* passes both tests, as the loop built it
RECURSIVE FirstOnPath(_, _, _)
FirstOnPath(cwd, dirs, command) ==
    IF dirs = <<>> THEN None
    ELSE IF ExecutableCandidate(Located(cwd, Head(dirs) \o command))
         THEN Some(Head(dirs) \o command)
         ELSE FirstOnPath(cwd, Tail(dirs), command)

\* policy.rs resolve_executable_path in a process with this PATH and working
\* directory: canonicalizes
PolicyResolveIn(path, cwd, command) ==
    IF ContainsSlash(command)
    THEN IF Canonicalize(Located(cwd, command)) = None
         THEN Err(TextAbout("canonicalize failed", "command"))
         ELSE Ok(Unwrap(Canonicalize(Located(cwd, command))))
    ELSE IF path = None THEN Err(Text("PATH is not set"))
    ELSE IF FirstOnPath(cwd, Unwrap(path), command) = None
         THEN Err(TextAbout("was not found on PATH", "command"))
         ELSE Ok(Unwrap(Canonicalize(
                    Located(cwd, Unwrap(FirstOnPath(cwd, Unwrap(path), command))))))

\* executor.rs resolve_executable_path in a process with this PATH and working
\* directory: keeps the candidate's own path
ExecutorResolveIn(path, cwd, command) ==
    IF ContainsSlash(command)
    THEN IF ~IsFile(Located(cwd, command)) THEN Err(TextAbout("is not a file", "command"))
         ELSE IF ~HasExecBit(Located(cwd, command))
              THEN Err(TextAbout("is not executable", "command"))
              ELSE Ok(Located(cwd, command))
    ELSE IF path = None THEN Err(Text("PATH is not set"))
    ELSE IF FirstOnPath(cwd, Unwrap(path), command) = None
         THEN Err(TextAbout("was not found on PATH", "command"))
         ELSE Ok(Unwrap(FirstOnPath(cwd, Unwrap(path), command)))

\* policy.rs resolve_executable_path in the broker
PolicyResolveExecutablePath(command) == PolicyResolveIn(Some(HostPath), HostCwd, command)

\* executor.rs resolve_executable_path in the broker
ExecutorResolveExecutablePath(command) == ExecutorResolveIn(Some(HostPath), HostCwd, command)

\* no resolution in progress
IdleLookup ==
    [pc |-> "idle", command |-> <<>>, path |-> None, cwd |-> <<"">>,
     resolved |-> None, policy_path |-> None, program |-> None]

\* no tool call in progress
IdleTool ==
    [pc |-> "idle", child |-> "unspawned", status |-> None, joined |-> <<>>,
     cancelled_at |-> "",
     left |-> [s \in {"stdout", "stderr"} |-> 0],
     pipe |-> [s \in {"stdout", "stderr"} |-> 0],
     reader |-> [s \in {"stdout", "stderr"} |-> "unspawned"],
     captured |-> [s \in {"stdout", "stderr"} |-> 0],
     truncated |-> [s \in {"stdout", "stderr"} |-> FALSE]]

\* no subnet being resolved
IdleNet == [pc |-> "idle", ip |-> <<0, 0>>, prefix |-> 0, build |-> "checked", result |-> None]

\* no call of validate_legacy_invocation
IdleLegacy ==
    [pc |-> "idle", policy |-> <<>>, command |-> <<>>, args |-> <<>>,
     env |-> [k \in {} |-> ""], result |-> None]

\* the calls of start_watcher on the one engine
Callers == 1..MaxCalls

\* a new engine: watcher_started unset, no call of start_watcher yet, no thread and
\* no task; received, reloads and coalesced count the signals recv() returned,
\* the reload() calls of the task and the signals its drain removed
IdleWatcher ==
    [calls |-> [c \in Callers |-> "idle"], started |-> FALSE, tasks |-> 0, threads |-> 0,
     task |-> "none", thread |-> "none", failure |-> None, channel |-> <<>>,
     eventsLeft |-> MaxSignals, epoch |-> 0, received |-> 0, reloads |-> 0,
     coalesced |-> 0, notified |-> 0, duringReload |-> 0]

(***************************************************************************)
(* Requests: tokens, argument lists and caller environments.               *)
(***************************************************************************)
Commands == { <<"echo">>, <<"nosuch">>, <<"", "srv", "data">> }

ArgLists == { <<>>, <<"ok">> }

UserEnvs == { EmptyMap, [k \in {"FLAG"} |-> "1"] }

\* PolicyEvaluationInput
EvaluationInput(command, path, args, env) ==
    [command |-> command, path |-> path, args |-> args, env |-> env]

(***************************************************************************)
(* Rego modules.  A policy file holds one of a few module texts; the       *)
(* compiled engine is the sequence of the module texts added to it, and    *)
(* the allow query is evaluated over them as regorus evaluates it:         *)
(*   main_delegate  package sandbox.main, default allow = false,           *)
(*                  allow if data.sandbox[input.command].allow             *)
(*   main_deny      package sandbox.main, default allow = false            *)
(*   cmd_echo       package sandbox.echo, allow if no args, no env and an  *)
(*                  absolute path (the test bundle's command.rego)         *)
(*   cmd_strict     package sandbox.echo, as cmd_echo, with a rule body    *)
(*                  whose builtin call raises on a non-empty args list     *)
(*   syntax_error   a text add_policy rejects                              *)
(*   unreadable     a file read_to_string fails on                         *)
(***************************************************************************)
Absent == "absent"

CompilingModules == {"main_delegate", "main_deny", "cmd_echo", "cmd_strict"}

InSeq(x, seq) == \E i \in 1..Len(seq) : seq[i] = x

\* RegoPolicy::evaluate: eval_bool_query("data.sandbox.main.allow")
RegoEvaluate(rego, input) ==
    IF ~InSeq("main_delegate", rego.engine) /\ ~InSeq("main_deny", rego.engine)
    THEN Err(Text("query data.sandbox.main.allow is undefined"))
    ELSE IF /\ InSeq("main_delegate", rego.engine)
            /\ input.command = <<"echo">>
            /\ InSeq("cmd_strict", rego.engine)
            /\ input.args # <<>>
    THEN Err(Text("builtin error in sandbox.echo"))
    ELSE Ok(/\ InSeq("main_delegate", rego.engine)
            /\ input.command = <<"echo">>
            /\ (InSeq("cmd_echo", rego.engine) \/ InSeq("cmd_strict", rego.engine))
            /\ input.args = <<>>
            /\ DOMAIN input.env = {}
            /\ IsAbsolute(input.path))

(***************************************************************************)
(* Legacy JSON policy: a list of CommandRule.  An ArgCheck is a record     *)
(* [type, value, position, required]; value holds the pattern of a regex   *)
(* check and the expected digest of a hash check; position (0-based) and   *)
(* required are Options.                                                   *)
(***************************************************************************)
RegexCompiles(pattern) == pattern \in {".*", "^o.$"}

\* the argument strings of the model a compiled pattern matches
RegexMatches(pattern) ==
    IF pattern = ".*" THEN {"ok", "no"} ELSE IF pattern = "^o.$" THEN {"ok"} ELSE {}

\* hex SHA-256 of the file an argument names; None when it cannot be read
FileSha256(arg) == IF arg = "ok" THEN Some("digest-ok") ELSE None

\* check_file_sha256
CheckFileSha256(file_path, expected_hash) ==
    FileSha256(file_path) = Some(expected_hash)

\* check_arg
CheckArg(arg, check) ==
    CASE check.type = "exact" -> arg = check.value
      [] check.type = "regex" -> RegexCompiles(check.value) /\ arg \in RegexMatches(check.value)
      [] check.type = "hash" -> CheckFileSha256(arg, check.value)

\* ArgCheck::required
Required(check) == IF check.required = None THEN FALSE ELSE Unwrap(check.required)

\* validate_env
ValidateEnv(env, allowed_env) ==
    IF \A key \in DOMAIN env : key \in allowed_env
    THEN Ok("unit")
    ELSE Err(TextAbout("Environment variable not allowed",
                       CHOOSE key \in DOMAIN env : key \notin allowed_env))

\* an argument matches some check, wherever the check is positioned
ArgMatchedAnyPosition(args, checks, i) ==
    \E c \in 1..Len(checks) : CheckArg(args[i], checks[c])

\* an argument matches some check whose position is unset or its own (0-based)
ArgMatched(args, checks, i) ==
    \E c \in 1..Len(checks) :
        /\ checks[c].position = None \/ checks[c].position = Some(i - 1)
        /\ CheckArg(args[i], checks[c])

\* a required check is satisfied
CheckSatisfied(args, check) ==
    IF check.position # None
    THEN /\ Unwrap(check.position) + 1 \in 1..Len(args)
         /\ CheckArg(args[Unwrap(check.position) + 1], check)
    ELSE \E i \in 1..Len(args) : CheckArg(args[i], check)

\* ArgCheck::expected_description
ExpectedDescription(check) ==
    CASE check.type = "exact" -> check.value
      [] check.type = "regex" -> "regex"
      [] check.type = "hash" -> "hash"

\* validate_rule
ValidateRule(args, checks) ==
    IF checks = <<>>
    THEN IF args = <<>> THEN Ok("unit") ELSE Err(Text("Command does not allow arguments."))
    ELSE IF \E i \in 1..Len(args) : ~ArgMatched(args, checks, i)
    THEN LET i == CHOOSE j \in 1..Len(args) :
                      /\ ~ArgMatched(args, checks, j)
                      /\ \A k \in 1..(j - 1) : ArgMatched(args, checks, k)
         IN  Err(TextAt("Argument not allowed at position", i - 1, args[i]))
    ELSE IF \E c \in 1..Len(checks) : Required(checks[c]) /\ ~CheckSatisfied(args, checks[c])
    THEN LET c == CHOOSE d \in 1..Len(checks) :
                      /\ Required(checks[d]) /\ ~CheckSatisfied(args, checks[d])
                      /\ \A k \in 1..(d - 1) :
                             ~(Required(checks[k]) /\ ~CheckSatisfied(args, checks[k]))
         IN  IF checks[c].position # None
             THEN Err(TextAt("Missing required argument at position",
                             Unwrap(checks[c].position), ""))
             ELSE Err(TextAbout("Missing required argument matching",
                                ExpectedDescription(checks[c])))
    ELSE Ok("unit")

\* the rule's verdict: validate_rule(..).and_then(|_| validate_env(..))
RuleVerdict(rule, args, env) ==
    IF ~ValidateRule(args, rule.args).ok
    THEN ValidateRule(args, rule.args)
    ELSE ValidateEnv(env, rule.env)

\* ValidationError values
PolicyUnavailable(details) == [type |-> "PolicyUnavailable", details |-> details]

PolicyEvaluationFailed(command, details) ==
    [type |-> "PolicyEvaluationFailed", command |-> command, details |-> details]

CommandNotAllowed(command) == [type |-> "CommandNotAllowed", command |-> command]

RuleValidationFailed(command, rule_count, details) ==
    [type |-> "RuleValidationFailed", command |-> command,
     rule_count |-> rule_count, details |-> details]

\* ValidationError::PathResolutionFailed, as executor.rs constructs it
PathResolutionFailed(command, details) ==
    [type |-> "PathResolutionFailed", command |-> command, details |-> details]

\* Result<(), ValidationError>
Allowed == [type |-> "Ok"]

\* the rules naming the command, in policy order
RulesFor(policy, command) == SelectSeq(policy, LAMBDA rule : rule.command = command)

\* validate_legacy_invocation consulting only the first rule naming the command
ValidateLegacyInvocationFirstRule(policy, command, args, env) ==
    LET rules == RulesFor(policy, command) IN
    IF rules = <<>> THEN CommandNotAllowed(command)
    ELSE IF RuleVerdict(rules[1], args, env).ok THEN Allowed
    ELSE RuleValidationFailed(command, Len(rules), << RuleVerdict(rules[1], args, env).error >>)

\* validate_legacy_invocation
ValidateLegacyInvocation(policy, command, args, env) ==
    LET rules == RulesFor(policy, command) IN
    IF rules = <<>> THEN CommandNotAllowed(command)
    ELSE IF \E i \in 1..Len(rules) : RuleVerdict(rules[i], args, env).ok THEN Allowed
    ELSE RuleValidationFailed(command, Len(rules),
             [i \in 1..Len(rules) |-> RuleVerdict(rules[i], args, env).error])

\* a policy file text of the model: echo with the single argument "ok"
LegacyEchoPolicy ==
    << [command |-> <<"echo">>,
        args |-> << [type |-> "exact", value |-> "ok",
                     position |-> Some(0), required |-> Some(TRUE)] >>,
        env |-> {}] >>

\* the legacy policy file: [kind, policy], kind one of these or "policy"
LegacyFileFaults == {"invalid_json", "allowed_hosts", "commands_wrapper", "unreadable"}

LegacyFile(kind, policy) == [kind |-> kind, policy |-> policy]

\* load_policy: read, parse, reject allowedHosts, check the schema, compile the regexes
LoadPolicy(file) ==
    IF file = None THEN Err(Text("policy file not found"))
    ELSE IF Unwrap(file).kind \in LegacyFileFaults
    THEN CASE Unwrap(file).kind = "unreadable" -> Err(Text("unable to read policy file"))
           [] Unwrap(file).kind = "invalid_json" -> Err(Text("invalid JSON in policy file"))
           [] Unwrap(file).kind = "allowed_hosts" ->
                Err(Text("legacy field 'allowedHosts' is not supported"))
           [] Unwrap(file).kind = "commands_wrapper" ->
                Err(Text("policy schema validation failed"))
    ELSE LET policy == Unwrap(file).policy IN
         IF \E i \in 1..Len(policy) : \E c \in 1..Len(policy[i].args) :
                /\ policy[i].args[c].type = "regex"
                /\ ~RegexCompiles(policy[i].args[c].value)
         THEN Err(Text("invalid regex in policy"))
         ELSE Ok(policy)

(***************************************************************************)
(* Policy snapshots and their loading.                                     *)
(***************************************************************************)
\* PolicySnapshot::deny_all
DenyAllSnapshot(details) ==
    [mode |-> "DenyAll", rego |-> None, legacy_json |-> None, deny_reason |-> Some(details)]

\* PolicySnapshot::from_rego
FromRego(policy) ==
    [mode |-> "Rego", rego |-> Some(policy), legacy_json |-> None, deny_reason |-> None]

\* PolicySnapshot::from_legacy_json
FromLegacyJson(policy) ==
    [mode |-> "LegacyJson", rego |-> None, legacy_json |-> Some(policy), deny_reason |-> None]

\* RegoPolicy
RegoPolicy(engine, module_count) == [engine |-> engine, module_count |-> module_count]

\* the file names a policy directory of the model can hold
DirFiles == {"command.rego", "main.rego", "notes.txt"}

\* path.extension() == Some("rego")
HasRegoExtension(file) == file \in {"command.rego", "main.rego"}

\* the lexicographic order of the file names: files.sort()
FileOrder == <<"command.rego", "main.rego", "notes.txt">>

SortFiles(files) == SelectSeq(FileOrder, LAMBDA f : f \in files)

\* what each file of the model may hold
FileTexts(file) ==
    CASE file = "main.rego" -> {"main_delegate", "main_deny", "syntax_error", "unreadable"}
      [] file = "command.rego" -> {"cmd_echo", "cmd_strict", "syntax_error", "unreadable"}
      [] file = "notes.txt" -> {"text"}

\* the directory is missing (None) or maps each file name to its text or Absent
DirMissing == None

DirOf(files) == Some(files)

EmptyDir == [f \in DirFiles |-> Absent]

\* collect_rego_files: the .rego files of the directory; fails when it cannot be read
CollectRegoFiles(dir) ==
    IF dir = DirMissing THEN Err(Text("failed reading policy directory"))
    ELSE Ok({f \in DirFiles : Unwrap(dir)[f] # Absent /\ HasRegoExtension(f)})

\* one turn of the loop of load_rego_policy_dir: read the file, add it to the engine
AddPolicyFile(dir, file, engine) ==
    IF dir = DirMissing \/ Unwrap(dir)[file] \in {Absent, "unreadable"}
    THEN Err(TextAbout("failed reading", file))
    ELSE IF Unwrap(dir)[file] \notin CompilingModules
    THEN Err(TextAbout("failed compiling", file))
    ELSE Ok(Append(engine, Unwrap(dir)[file]))

\* the loop of load_rego_policy_dir over the files still to add
RECURSIVE AddPolicyFiles(_, _, _, _)
AddPolicyFiles(dir, files, engine, module_count) ==
    IF files = <<>> THEN Ok(RegoPolicy(engine, module_count))
    ELSE IF ~AddPolicyFile(dir, Head(files), engine).ok
    THEN AddPolicyFile(dir, Head(files), engine)
    ELSE AddPolicyFiles(dir, Tail(files), AddPolicyFile(dir, Head(files), engine).value,
                        module_count)

\* load_rego_policy_dir, reading a directory that does not change meanwhile
LoadRegoPolicyDir(dir) ==
    IF ~CollectRegoFiles(dir).ok THEN CollectRegoFiles(dir)
    ELSE IF CollectRegoFiles(dir).value = {}
    THEN Err(Text("no .rego files found under policy directory"))
    ELSE AddPolicyFiles(dir, SortFiles(CollectRegoFiles(dir).value), <<>>,
                        Cardinality(CollectRegoFiles(dir).value))

\* the map_err calls of load_policy_snapshot: the error under its prefix
RegoLoadFailed(error) ==
    [msg |-> error.msg, file |-> error.file, index |-> error.index,
     prefix |-> "rego policy load failed"]

LegacyLoadFailed(error) ==
    [msg |-> error.msg, file |-> error.file, index |-> error.index,
     prefix |-> "legacy JSON policy load failed"]

NoPolicySource ==
    [msg |-> "no policy source configured (set POLICY_DIR or POLICY_FILE)",
     file |-> "", index |-> -1, prefix |-> ""]

\* load_policy_snapshot that turns to the legacy file when the directory fails
LoadPolicySnapshotWithFallback(srcs, dir, file) ==
    IF srcs.policy_dir # None /\ LoadRegoPolicyDir(dir).ok
    THEN Ok(FromRego(LoadRegoPolicyDir(dir).value))
    ELSE IF srcs.policy_file # None
    THEN IF LoadPolicy(file).ok
         THEN Ok(FromLegacyJson(LoadPolicy(file).value))
         ELSE Err(LegacyLoadFailed(LoadPolicy(file).error))
    ELSE IF srcs.policy_dir # None
    THEN Err(RegoLoadFailed(LoadRegoPolicyDir(dir).error))
    ELSE Err(NoPolicySource)

\* load_policy_snapshot, reading sources that do not change meanwhile
LoadPolicySnapshot(srcs, dir, file) ==
    IF srcs.policy_dir # None
    THEN IF LoadRegoPolicyDir(dir).ok
         THEN Ok(FromRego(LoadRegoPolicyDir(dir).value))
         ELSE Err(RegoLoadFailed(LoadRegoPolicyDir(dir).error))
    ELSE IF srcs.policy_file # None
    THEN IF LoadPolicy(file).ok
         THEN Ok(FromLegacyJson(LoadPolicy(file).value))
         ELSE Err(LegacyLoadFailed(LoadPolicy(file).error))
    ELSE Err(NoPolicySource)

(***************************************************************************)
(* The child environment (executor.rs build_command_env).                  *)
(***************************************************************************)
\* BTreeMap::insert
Insert(map, key, value) ==
    [k \in DOMAIN map \cup {key} |-> IF k = key THEN value ELSE map[k]]

\* BTreeMap::remove
Remove(map, key) == [k \in DOMAIN map \ {key} |-> map[k]]

\* a merge in which the entries already in the map win
ExtendKeepingExisting(map, other) ==
    [k \in DOMAIN map \cup DOMAIN other |-> IF k \in DOMAIN map THEN map[k] ELSE other[k]]

\* BTreeMap::extend: the other map's entries win
Extend(map, other) ==
    [k \in DOMAIN map \cup DOMAIN other |-> IF k \in DOMAIN other THEN other[k] ELSE map[k]]

\* std::env::var(key).ok() in the broker process
EnvVar(broker, key) == IF key \in DOMAIN broker THEN Some(broker[key]) ELSE None

\* if let Some(value) = var { map.insert(key, value) }
InsertIfSet(map, key, var) == IF var = None THEN map ELSE Insert(map, key, Unwrap(var))

\* for key in ["HOME", "LANG"]: copy from the broker when set
InheritedEnv(broker) ==
    InsertIfSet(InsertIfSet(EmptyMap, "HOME", EnvVar(broker, "HOME")),
                "LANG", EnvVar(broker, "LANG"))

\* a removal loop that leaves out the uppercase proxy keys
CriticalKeysLowercaseOnly == <<"PATH", "http_proxy", "https_proxy", "no_proxy">>

\* the keys removed after the merge, in the order of the loop
CriticalKeys ==
    <<"PATH", "http_proxy", "https_proxy", "no_proxy", "HTTP_PROXY", "HTTPS_PROXY", "NO_PROXY">>

RECURSIVE RemoveKeys(_, _)
RemoveKeys(map, keys) ==
    IF keys = <<>> THEN map ELSE RemoveKeys(Remove(map, Head(keys)), Tail(keys))

\* if let Ok(path) = std::env::var("PATH")
RestorePath(map, broker) == InsertIfSet(map, "PATH", EnvVar(broker, "PATH"))

\* the three lowercase inserts
RestoreProxies(map, broker) ==
    InsertIfSet(InsertIfSet(InsertIfSet(map,
        "http_proxy", EnvVar(broker, "http_proxy")),
        "https_proxy", EnvVar(broker, "https_proxy")),
        "no_proxy", EnvVar(broker, "no_proxy"))

\* the three uppercase inserts, each of the lowercase variable's value
MirrorProxies(map, broker) ==
    InsertIfSet(InsertIfSet(InsertIfSet(map,
        "HTTP_PROXY", EnvVar(broker, "http_proxy")),
        "HTTPS_PROXY", EnvVar(broker, "https_proxy")),
        "NO_PROXY", EnvVar(broker, "no_proxy"))

\* build_command_env
BuildCommandEnv(broker, user_env) ==
    MirrorProxies(
        RestoreProxies(
            RestorePath(
                RemoveKeys(Extend(InheritedEnv(broker), user_env), CriticalKeys),
                broker),
            broker),
        broker)

\* the environment of the broker process the engine's requests run in
HostEnv == [k \in {"HOME", "PATH", "http_proxy"} |-> "broker"]

(***************************************************************************)
(* PolicyEngine: construction, validation, reload.                         *)
(***************************************************************************)
\* an evaluation error reported as a clean denial
RegoDecisionErrorAsDenial(evaluation, command) ==
    IF evaluation.ok /\ evaluation.value THEN [type |-> "Ok"]
    ELSE [type |-> "CommandNotAllowed", command |-> command]

\* the match on rego.evaluate(..) in validate_invocation
RegoDecision(evaluation, command) ==
    IF evaluation.ok
    THEN IF evaluation.value THEN Allowed ELSE CommandNotAllowed(command)
    ELSE PolicyEvaluationFailed(command, evaluation.error)

\* DenyAll answered like a policy that denies the command
ValidateSnapshotDenyAllAsDenial(snapshot, input) ==
    IF snapshot.mode = "Rego" /\ snapshot.rego # None
    THEN RegoDecision(RegoEvaluate(Unwrap(snapshot.rego), input), input.command)
    ELSE IF snapshot.mode = "LegacyJson" /\ snapshot.legacy_json # None
    THEN ValidateLegacyInvocation(Unwrap(snapshot.legacy_json),
                                  input.command, input.args, input.env)
    ELSE CommandNotAllowed(input.command)

\* the match on snapshot.mode in validate_invocation
ValidateSnapshot(snapshot, input) ==
    CASE snapshot.mode = "Rego" ->
           IF snapshot.rego = None
           THEN PolicyUnavailable(Text("internal policy state mismatch"))
           ELSE RegoDecision(RegoEvaluate(Unwrap(snapshot.rego), input), input.command)
      [] snapshot.mode = "LegacyJson" ->
           IF snapshot.legacy_json = None
           THEN PolicyUnavailable(Text("internal policy state mismatch"))
           ELSE ValidateLegacyInvocation(Unwrap(snapshot.legacy_json),
                                         input.command, input.args, input.env)
      [] snapshot.mode = "DenyAll" ->
           PolicyUnavailable(
               IF snapshot.deny_reason = None
               THEN Text("policy state is invalid and command execution is denied")
               ELSE Unwrap(snapshot.deny_reason))

\* the snapshot a load result installs: from_sources and reload alike
SnapshotOfLoad(load) == IF load.ok THEN load.value ELSE DenyAllSnapshot(load.error)

\* PolicyEngine::from_sources: the snapshot the engine is constructed with
FromSources(srcs, dir, file) == SnapshotOfLoad(LoadPolicySnapshot(srcs, dir, file))

\* reload() that leaves the installed snapshot in place when the load fails
ReloadKeepingOnFailure(load, installed) == IF load.ok THEN load.value ELSE installed

\* reload() that never leaves DenyAll once it is installed
ReloadStickyDenyAll(load, installed) ==
    IF installed.mode = "DenyAll" THEN installed ELSE SnapshotOfLoad(load)

\* reload() that writes the snapshot of the load before this one
ReloadedSnapshotOfPreviousLoad(load, installed) == SnapshotOfLoad(lastInstall)

\* the snapshot reload() writes under the write lock
ReloadedSnapshot(load, installed) == SnapshotOfLoad(load)

\* PolicyEngine::mode
Mode == state.mode

\* the engine configurations: POLICY_DIR and POLICY_FILE, each set or not
SourcesSet == [policy_dir : {None, Some("policy")}, policy_file : {None, Some("policy.json")}]

\* the test bundle of policy.rs: main.rego delegating to command.rego for echo
BundleDir ==
    DirOf([f \in DirFiles |->
              CASE f = "main.rego" -> "main_delegate"
                [] f = "command.rego" -> "cmd_echo"
                [] OTHER -> Absent])

LegacyFiles ==
    { LegacyFile("policy", LegacyEchoPolicy), LegacyFile("invalid_json", <<>>) }

\* no reload() in progress; again records, as history, that the sources had not
\* changed since the load before this one began
IdleLoader ==
    [pc |-> "idle", files |-> <<>>, engine |-> <<>>, module_count |-> 0, load |-> None,
     again |-> FALSE]

IdleRequest ==
    [pc |-> "idle", kind |-> "validate", command |-> <<>>, args |-> <<>>, env |-> EmptyMap,
     resolved |-> None, path |-> None, snapshot |-> None, result |-> None,
     spawned |-> "no", child |-> None, seen |-> {}]

\* a policy directory holding these two texts
DirWith(main, command) ==
    DirOf([f \in DirFiles |->
              CASE f = "main.rego" -> main
                [] f = "command.rego" -> command
                [] OTHER -> Absent])

\* no build_command_env, no capture and no raw stream in progress
IdleEnvs ==
    [pc |-> "idle", broker |-> EmptyMap, user |-> <<EmptyMap, EmptyMap>>,
     command |-> <<EmptyMap, EmptyMap>>]

IdleCapture ==
    [pc |-> "idle", stream |-> <<>>, pos |-> 0, output |-> <<>>, truncated |-> FALSE,
     response |-> <<>>]

IdleRaw ==
    [pc |-> "idle", payload |-> "ok", pipes |-> [s \in {"stdout", "stderr"} |-> TRUE],
     http |-> None, error |-> None,
     emitted |-> <<>>, data |-> <<>>, body |-> 0, client |-> "connected",
     status |-> None, child |-> "unspawned", exit_code |-> None,
     stdout_done |-> FALSE, stderr_done |-> FALSE, pending |-> None,
     queue |-> <<>>, readers |-> [s \in {"stdout", "stderr"} |-> "unspawned"],
     written |-> [s \in {"stdout", "stderr"} |-> 0],
     chunksLeft |-> [s \in {"stdout", "stderr"} |-> 0],
     ended |-> "no"]

\* no remote client running
IdleRemote ==
    [pc |-> "idle", args |-> <<>>, local |-> EmptyMap, url |-> None, cwd |-> None,
     payload |-> None, sent |-> FALSE,
     response |-> None, text |-> <<>>, lines |-> <<>>, pos |-> 0,
     buffer |-> <<>>, saw_start |-> FALSE, exit_code |-> None,
     out |-> [s \in {"stdout", "stderr"} |-> <<>>],
     writable |-> [s \in {"stdout", "stderr"} |-> TRUE],
     handled |-> <<>>, eof |-> FALSE, result |-> None, status |-> None]

\* the engine as constructed over the given sources, nothing in progress
Constructed(srcs, dirs, files) ==
    /\ sources \in srcs
    /\ policyDir \in (IF sources.policy_dir = None THEN {DirMissing} ELSE dirs)
    /\ policyFile \in (IF sources.policy_file = None THEN {None} ELSE files)
    /\ state = FromSources(sources, policyDir, policyFile)
    /\ loader = IdleLoader
    /\ req = IdleRequest
    /\ lastInstall = LoadPolicySnapshot(sources, policyDir, policyFile)
    /\ modeHistory = <<state.mode>>
    /\ dirty = FALSE

InitPolicy ==
    /\ Constructed(SourcesSet, {DirMissing, BundleDir},
                   {None, Some(LegacyFile("policy", LegacyEchoPolicy))})
    /\ editsLeft = MaxEdits
    /\ reloadsLeft = MaxReloads
    /\ envs = IdleEnvs /\ capture = IdleCapture /\ raw = IdleRaw /\ remote = IdleRemote /\ lookup = IdleLookup /\ watcher = IdleWatcher /\ tool = IdleTool /\ net = IdleNet /\ legacy = IdleLegacy

InitRequests ==
    /\ Constructed(SourcesSet,
                   {DirMissing, BundleDir, DirWith("main_delegate", "cmd_strict"),
                    DirWith("main_deny", Absent), DirWith(Absent, "cmd_echo"),
                    DirWith("syntax_error", "cmd_echo")},
                   {None, Some(LegacyFile("policy", LegacyEchoPolicy))})
    /\ editsLeft = MaxRequestEdits
    /\ reloadsLeft = MaxRequestReloads
    /\ envs = IdleEnvs /\ capture = IdleCapture /\ raw = IdleRaw /\ remote = IdleRemote /\ lookup = IdleLookup /\ watcher = IdleWatcher /\ tool = IdleTool /\ net = IdleNet /\ legacy = IdleLegacy

\* the engine of a broker serving the test bundle, its sources left alone
InitEngineAtRest ==
    /\ Constructed({[policy_dir |-> Some("policy"), policy_file |-> None]},
                   {BundleDir}, {None})
    /\ editsLeft = 0
    /\ reloadsLeft = 0

(***************************************************************************)
(* The environment edits the policy sources.                               *)
(***************************************************************************)
WritePolicyFile(f, text) ==
    /\ editsLeft > 0
    /\ sources.policy_dir # None
    /\ policyDir # DirMissing
    /\ Unwrap(policyDir)[f] # text
    /\ policyDir' = DirOf([Unwrap(policyDir) EXCEPT ![f] = text])
    /\ dirty' = TRUE
    /\ editsLeft' = editsLeft - 1
    /\ UNCHANGED <<executorVars, brokerVars, sources, policyFile, state, loader, req, lastInstall, modeHistory, reloadsLeft>>

RemovePolicyFile(f) ==
    /\ editsLeft > 0
    /\ sources.policy_dir # None
    /\ policyDir # DirMissing
    /\ Unwrap(policyDir)[f] # Absent
    /\ policyDir' = DirOf([Unwrap(policyDir) EXCEPT ![f] = Absent])
    /\ dirty' = TRUE
    /\ editsLeft' = editsLeft - 1
    /\ UNCHANGED <<executorVars, brokerVars, sources, policyFile, state, loader, req, lastInstall, modeHistory, reloadsLeft>>

RemovePolicyDir ==
    /\ editsLeft > 0
    /\ sources.policy_dir # None
    /\ policyDir # DirMissing
    /\ policyDir' = DirMissing
    /\ dirty' = TRUE
    /\ editsLeft' = editsLeft - 1
    /\ UNCHANGED <<executorVars, brokerVars, sources, policyFile, state, loader, req, lastInstall, modeHistory, reloadsLeft>>

CreatePolicyDir ==
    /\ editsLeft > 0
    /\ sources.policy_dir # None
    /\ policyDir = DirMissing
    /\ policyDir' = DirOf(EmptyDir)
    /\ dirty' = TRUE
    /\ editsLeft' = editsLeft - 1
    /\ UNCHANGED <<executorVars, brokerVars, sources, policyFile, state, loader, req, lastInstall, modeHistory, reloadsLeft>>

WriteLegacyFile(file) ==
    /\ editsLeft > 0
    /\ sources.policy_file # None
    /\ policyFile # Some(file)
    /\ policyFile' = Some(file)
    /\ dirty' = TRUE
    /\ editsLeft' = editsLeft - 1
    /\ UNCHANGED <<executorVars, brokerVars, sources, policyDir, state, loader, req, lastInstall, modeHistory, reloadsLeft>>

RemoveLegacyFile ==
    /\ editsLeft > 0
    /\ sources.policy_file # None
    /\ policyFile # None
    /\ policyFile' = None
    /\ dirty' = TRUE
    /\ editsLeft' = editsLeft - 1
    /\ UNCHANGED <<executorVars, brokerVars, sources, policyDir, state, loader, req, lastInstall, modeHistory, reloadsLeft>>

(***************************************************************************)
(* reload(): load_policy_snapshot step by step, then the write.            *)
(***************************************************************************)
\* the loader once load_policy_snapshot has returned
Loaded(load) == [IdleLoader EXCEPT !.pc = "install", !.load = Some(load)]

\* load_policy_snapshot is entered: the directory is listed, or the legacy file is
\* loaded
LoadEntered ==
    IF sources.policy_dir # None
    THEN IF ~CollectRegoFiles(policyDir).ok
         THEN Loaded(Err(RegoLoadFailed(CollectRegoFiles(policyDir).error)))
         ELSE IF CollectRegoFiles(policyDir).value = {}
         THEN Loaded(Err(RegoLoadFailed(
                  Text("no .rego files found under policy directory"))))
         ELSE [IdleLoader EXCEPT
                  !.pc = "compile",
                  !.files = SortFiles(CollectRegoFiles(policyDir).value),
                  !.module_count = Cardinality(CollectRegoFiles(policyDir).value)]
    ELSE Loaded(LoadPolicySnapshot(sources, policyDir, policyFile))

\* reload() is entered
ReloadBegin ==
    /\ loader.pc = "idle"
    /\ reloadsLeft > 0
    /\ reloadsLeft' = reloadsLeft - 1
    /\ loader' = [LoadEntered EXCEPT !.again = ~dirty]
    /\ dirty' = FALSE
    /\ UNCHANGED <<executorVars, brokerVars, sources, policyDir, policyFile, state, req, lastInstall, modeHistory, editsLeft>>

\* every file of the listing has been added to the engine
AllFilesAdded(files) == files = <<>>

\* one file is read and compiled into the engine being built
ReloadCompile ==
    /\ loader.pc = "compile"
    /\ LET added == AddPolicyFile(policyDir, Head(loader.files), loader.engine) IN
       loader' =
         [(IF ~added.ok THEN Loaded(Err(RegoLoadFailed(added.error)))
           ELSE IF AllFilesAdded(Tail(loader.files))
           THEN Loaded(Ok(FromRego(RegoPolicy(added.value, loader.module_count))))
           ELSE [loader EXCEPT !.files = Tail(loader.files), !.engine = added.value])
          EXCEPT !.again = loader.again]
    /\ UNCHANGED <<executorVars, brokerVars, sources, policyDir, policyFile, state, req, lastInstall, modeHistory, dirty,
                   editsLeft, reloadsLeft>>

\* the write under the write lock; reload() returns
ReloadInstall ==
    /\ loader.pc = "install"
    /\ state' = ReloadedSnapshot(Unwrap(loader.load), state)
    /\ lastInstall' = Unwrap(loader.load)
    /\ modeHistory' = Append(modeHistory, state'.mode)
    /\ req' = IF req.pc \in {"read", "evaluate"}
              THEN [req EXCEPT !.seen = req.seen \cup {state'}]
              ELSE req
    /\ loader' = IdleLoader
    /\ UNCHANGED <<executorVars, brokerVars, sources, policyDir, policyFile, dirty, editsLeft, reloadsLeft>>

(***************************************************************************)
(* A request: spawn_network_tool_process on the buffered ("tool") or raw   *)
(* path, or a direct call of validate_invocation ("validate").             *)
(***************************************************************************)
\* a validation error that does not stop the request
ProceedsRegardless(result) == TRUE

\* the ? after validate_invocation: only Ok goes on to spawn
Proceeds(result) == result = Allowed

\* the mode of the clone with the fields of whatever is installed by now
EvaluatedLiveFields == [state EXCEPT !.mode = Unwrap(req.snapshot).mode]

\* the snapshot validate_invocation evaluates: its clone of the state
EvaluatedSnapshot == Unwrap(req.snapshot)

\* the request arrives; the executor resolves the executable
RequestStart(kind, command, args, env) ==
    /\ req.pc = "idle"
    /\ req' =
         IF kind = "validate"
         THEN [IdleRequest EXCEPT !.pc = "validate", !.kind = kind, !.command = command,
                                  !.args = args, !.env = env]
         ELSE IF ~ExecutorResolveExecutablePath(command).ok
         THEN [IdleRequest EXCEPT
                  !.pc = "done", !.kind = kind, !.command = command,
                  !.args = args, !.env = env,
                  !.result = Some(PathResolutionFailed(command,
                                 ExecutorResolveExecutablePath(command).error))]
         ELSE [IdleRequest EXCEPT
                  !.pc = "validate", !.kind = kind, !.command = command,
                  !.args = args, !.env = env,
                  !.resolved = Some(ExecutorResolveExecutablePath(command).value)]
    /\ UNCHANGED <<executorVars, brokerVars, sources, policyDir, policyFile, state, loader, lastInstall,
                   modeHistory, dirty, editsLeft, reloadsLeft>>

\* validate_invocation is entered and resolves the path for the policy input
ValidateResolve ==
    /\ req.pc = "validate"
    /\ req' =
         IF ~PolicyResolveExecutablePath(req.command).ok
         THEN [req EXCEPT
                  !.pc = "done", !.seen = {state},
                  !.result = Some(RuleValidationFailed(req.command, 1,
                      << TextAbout("unable to resolve executable path",
                                   PolicyResolveExecutablePath(req.command).error.msg) >>))]
         ELSE [req EXCEPT
                  !.pc = "read", !.seen = {state},
                  !.path = Some(PolicyResolveExecutablePath(req.command).value)]
    /\ UNCHANGED <<executorVars, brokerVars, sources, policyDir, policyFile, state, loader, lastInstall,
                   modeHistory, dirty, editsLeft, reloadsLeft>>

\* self.state.read().clone()
ValidateRead ==
    /\ req.pc = "read"
    /\ req' = [req EXCEPT !.pc = "evaluate", !.snapshot = Some(state)]
    /\ UNCHANGED <<executorVars, brokerVars, sources, policyDir, policyFile, state, loader, lastInstall,
                   modeHistory, dirty, editsLeft, reloadsLeft>>

\* the match on the cloned snapshot; validate_invocation returns
ValidateEvaluate ==
    /\ req.pc = "evaluate"
    /\ LET result == ValidateSnapshot(EvaluatedSnapshot,
                         EvaluationInput(req.command, Unwrap(req.path), req.args, req.env))
       IN  req' = [req EXCEPT
                      !.result = Some(result),
                      !.pc = IF req.kind # "validate" /\ Proceeds(result)
                             THEN "spawn" ELSE "done"]
    /\ UNCHANGED <<executorVars, brokerVars, sources, policyDir, policyFile, state, loader, lastInstall,
                   modeHistory, dirty, editsLeft, reloadsLeft>>

\* Command::spawn: the child runs, or the spawn fails
Spawn ==
    /\ req.pc = "spawn"
    /\ \/ req' = [req EXCEPT
                     !.pc = "done", !.spawned = "yes",
                     !.child = Some([program |-> Unwrap(req.resolved), args |-> req.args,
                                     env |-> BuildCommandEnv(HostEnv, req.env)])]
       \/ req' = [req EXCEPT !.pc = "done", !.spawned = "failed"]
    /\ UNCHANGED <<executorVars, brokerVars, sources, policyDir, policyFile, state, loader, lastInstall,
                   modeHistory, dirty, editsLeft, reloadsLeft>>

\* the request is over
RequestFinish ==
    /\ req.pc = "done"
    /\ req' = IdleRequest
    /\ UNCHANGED <<executorVars, brokerVars, sources, policyDir, policyFile, state, loader, lastInstall,
                   modeHistory, dirty, editsLeft, reloadsLeft>>

\* the edits of the policy sources
EditSources ==
    \/ \E f \in DirFiles : \E text \in FileTexts(f) : WritePolicyFile(f, text)
    \/ \E f \in DirFiles : RemovePolicyFile(f)
    \/ RemovePolicyDir
    \/ CreatePolicyDir
    \/ \E file \in LegacyFiles : WriteLegacyFile(file)
    \/ RemoveLegacyFile

\* the steps of reload()
Reload ==
    \/ ReloadBegin
    \/ ReloadCompile
    \/ ReloadInstall

(***************************************************************************)
(* Spec: the engine through edits and reloads, with direct calls of        *)
(* validate_invocation for echo.                                           *)
(***************************************************************************)
Init == InitPolicy

Next ==
    \/ EditSources
    \/ Reload
    \/ \E args \in ArgLists : RequestStart("validate", <<"echo">>, args, EmptyMap)
    \/ ValidateResolve
    \/ ValidateRead
    \/ ValidateEvaluate
    \/ RequestFinish

Spec == Init /\ [][Next]_vars

(***************************************************************************)
(* SpecRequests: requests of every kind and input against one edit and one *)
(* reload of the policy.                                                   *)
(***************************************************************************)
RequestKinds == {"tool", "raw", "validate"}

NextRequests ==
    \/ EditSources
    \/ Reload
    \/ \E kind \in RequestKinds : \E command \in Commands :
           \E args \in ArgLists : \E env \in UserEnvs :
               RequestStart(kind, command, args, env)
    \/ ValidateResolve
    \/ ValidateRead
    \/ ValidateEvaluate
    \/ Spawn
    \/ RequestFinish

SpecRequests == InitRequests /\ [][NextRequests]_vars

(***************************************************************************)
(* SpecEnv: build_command_env step by step, over one broker environment    *)
(* and the env maps of two callers side by side.                           *)
(***************************************************************************)
EnvKeys ==
    {"HOME", "LANG", "PATH", "http_proxy", "https_proxy", "no_proxy",
     "HTTP_PROXY", "HTTPS_PROXY", "NO_PROXY", "CUSTOM"}

\* the value a key has in the broker's environment, in a caller's env map
BrokerValue(k) == [from |-> "broker", key |-> k]

CallerValue(i, k) == [from |-> IF i = 1 THEN "caller1" ELSE "caller2", key |-> k]

KeySets(max) == { K \in SUBSET EnvKeys : Cardinality(K) <= max }

BrokerEnvs == { [k \in K |-> BrokerValue(k)] : K \in KeySets(MaxBrokerVars) }

CallerEnvs(i) == { [k \in K |-> CallerValue(i, k)] : K \in KeySets(MaxCallerVars) }

InitEnv ==
    /\ InitEngineAtRest
    /\ envs \in [pc : {"inherit"}, broker : BrokerEnvs,
                 user : CallerEnvs(1) \X CallerEnvs(2),
                 command : {<<EmptyMap, EmptyMap>>}]
    /\ capture = IdleCapture
    /\ raw = IdleRaw /\ remote = IdleRemote /\ lookup = IdleLookup /\ watcher = IdleWatcher /\ tool = IdleTool /\ net = IdleNet /\ legacy = IdleLegacy

\* for key in ["HOME", "LANG"]
BuildEnvInherit ==
    /\ envs.pc = "inherit"
    /\ envs' = [envs EXCEPT !.pc = "merge",
                            !.command = [i \in 1..2 |-> InheritedEnv(envs.broker)]]
    /\ UNCHANGED <<policyVars, brokerVars, capture, raw, remote>>

\* command_env.extend(user_env)
BuildEnvMerge ==
    /\ envs.pc = "merge"
    /\ envs' = [envs EXCEPT !.pc = "strip",
                            !.command = [i \in 1..2 |->
                                            Extend(envs.command[i], envs.user[i])]]
    /\ UNCHANGED <<policyVars, brokerVars, capture, raw, remote>>

\* for key in [PATH and the proxy keys]: command_env.remove(key)
BuildEnvStrip ==
    /\ envs.pc = "strip"
    /\ envs' = [envs EXCEPT !.pc = "path",
                            !.command = [i \in 1..2 |->
                                            RemoveKeys(envs.command[i], CriticalKeys)]]
    /\ UNCHANGED <<policyVars, brokerVars, capture, raw, remote>>

BuildEnvPath ==
    /\ envs.pc = "path"
    /\ envs' = [envs EXCEPT !.pc = "proxies",
                            !.command = [i \in 1..2 |->
                                            RestorePath(envs.command[i], envs.broker)]]
    /\ UNCHANGED <<policyVars, brokerVars, capture, raw, remote>>

BuildEnvProxies ==
    /\ envs.pc = "proxies"
    /\ envs' = [envs EXCEPT !.pc = "mirror",
                            !.command = [i \in 1..2 |->
                                            RestoreProxies(envs.command[i], envs.broker)]]
    /\ UNCHANGED <<policyVars, brokerVars, capture, raw, remote>>

\* the uppercase inserts; build_command_env returns
BuildEnvMirror ==
    /\ envs.pc = "mirror"
    /\ envs' = [envs EXCEPT !.pc = "done",
                            !.command = [i \in 1..2 |->
                                            MirrorProxies(envs.command[i], envs.broker)]]
    /\ UNCHANGED <<policyVars, brokerVars, capture, raw, remote>>

NextEnv ==
    \/ BuildEnvInherit
    \/ BuildEnvMerge
    \/ BuildEnvStrip
    \/ BuildEnvPath
    \/ BuildEnvProxies
    \/ BuildEnvMirror

SpecEnv == InitEnv /\ [][NextEnv]_vars

(***************************************************************************)
(* SpecCapture: read_limited over one output stream of a child, then       *)
(* finalize_capture.  Bytes are numbers; a string is a sequence of code    *)
(* points.  The streams are ASCII text with at most one 0xFF byte.         *)
(***************************************************************************)
\* "\n...truncated..."
TRUNCATION_MARKER ==
    <<10, 46, 46, 46, 116, 114, 117, 110, 99, 97, 116, 101, 100, 46, 46, 46>>

\* n bytes of text, every byte different from the others
TextBytes(n) == [i \in 1..n |-> 32 + i]

\* the outputs of a child: text, text ending in the words of the marker, and
\* text with a byte that is not UTF-8
Streams ==
    { TextBytes(n) : n \in 0..MaxStreamLen }
    \cup { TextBytes(n - Len(TRUNCATION_MARKER)) \o TRUNCATION_MARKER :
              n \in Len(TRUNCATION_MARKER)..MaxStreamLen }
    \cup { [TextBytes(n) EXCEPT ![1] = 255] : n \in 1..MaxStreamLen }

\* String::from_utf8_lossy over these streams: an ASCII byte is its own code
\* point, the byte 0xFF is replaced by U+FFFD
FromUtf8Lossy(bytes) ==
    [i \in 1..Len(bytes) |-> IF bytes[i] < 128 THEN bytes[i] ELSE 65533]

\* MAX_OUTPUT_BYTES.saturating_sub(output.len())
Remaining(output) ==
    IF MAX_OUTPUT_BYTES >= Len(output) THEN MAX_OUTPUT_BYTES - Len(output) ELSE 0

\* a chunk one byte short of the room left is the last that fits
FitsBelowRemaining(bytes_read, remaining) == bytes_read < remaining

\* if bytes_read <= remaining
FitsRemaining(bytes_read, remaining) == bytes_read <= remaining

InitCapture ==
    /\ InitEngineAtRest
    /\ envs = IdleEnvs
    /\ capture \in [pc : {"read"}, stream : Streams, pos : {0}, output : {<<>>},
                    truncated : {FALSE}, response : {<<>>}]
    /\ raw = IdleRaw /\ remote = IdleRemote /\ lookup = IdleLookup /\ watcher = IdleWatcher /\ tool = IdleTool /\ net = IdleNet /\ legacy = IdleLegacy

\* one turn of the loop: reader.read fills n bytes of the buffer
ReadChunk(n) ==
    /\ capture.pc = "read"
    /\ n <= Len(capture.stream) - capture.pos
    /\ LET chunk == SubSeq(capture.stream, capture.pos + 1, capture.pos + n)
           remaining == Remaining(capture.output)
       IN  capture' =
             IF capture.truncated
             THEN [capture EXCEPT !.pos = capture.pos + n]
             ELSE IF FitsRemaining(n, remaining)
             THEN [capture EXCEPT !.pos = capture.pos + n,
                                  !.output = capture.output \o chunk]
             ELSE [capture EXCEPT !.pos = capture.pos + n,
                                  !.output = capture.output \o SubSeq(chunk, 1, remaining),
                                  !.truncated = TRUE]
    /\ UNCHANGED <<policyVars, brokerVars, envs, raw, remote>>

\* reader.read returns 0: the loop breaks and read_limited returns Ok
ReadEof ==
    /\ capture.pc = "read"
    /\ capture.pos = Len(capture.stream)
    /\ capture' = [capture EXCEPT !.pc = "returned"]
    /\ UNCHANGED <<policyVars, brokerVars, envs, raw, remote>>

\* reader.read fails: read_limited returns the error
ReadFails ==
    /\ capture.pc = "read"
    /\ capture' = [capture EXCEPT !.pc = "failed"]
    /\ UNCHANGED <<policyVars, brokerVars, envs, raw, remote>>

\* finalize_capture
FinalizeCapture ==
    /\ capture.pc = "returned"
    /\ capture' = [capture EXCEPT
                      !.pc = "done",
                      !.response = FromUtf8Lossy(capture.output)
                                     \o (IF capture.truncated THEN TRUNCATION_MARKER
                                         ELSE <<>>)]
    /\ UNCHANGED <<policyVars, brokerVars, envs, raw, remote>>

NextCapture ==
    \/ \E n \in 1..ReadBufferLen : ReadChunk(n)
    \/ ReadEof
    \/ ReadFails
    \/ FinalizeCapture

SpecCapture == InitCapture /\ [][NextCapture]_vars

(***************************************************************************)
(* SpecRaw: stream_process_events with its two reader tasks, the child and *)
(* the client reading the response body.                                   *)
(***************************************************************************)
OutputStreams == {"stdout", "stderr"}

\* the StatusCode of the responses of raw_handler
BAD_REQUEST == 400

FORBIDDEN == 403

INTERNAL_SERVER_ERROR == 500

OK == 200

\* ExitStatus::code(): a code, or None when a signal ended the child
ExitCodes == {Some(0), Some(1), None}

\* the bytes of the k-th read of a stream of the child: reads of one, two,
\* three and four bytes, with the bytes 0xFF and 0x00 among them
ChunkData(stream, k) ==
    IF stream = "stdout"
    THEN CASE k % 3 = 1 -> <<255, 0, 65>>
           [] k % 3 = 2 -> <<104>>
           [] OTHER -> <<10, 200>>
    ELSE CASE k % 3 = 1 -> <<111, 111>>
           [] k % 3 = 2 -> <<250, 251, 252, 253>>
           [] OTHER -> <<0>>

\* everything the child wrote to a stream in its first n reads
RECURSIVE ChildOutput(_, _)
ChildOutput(stream, n) ==
    IF n = 0 THEN <<>> ELSE ChildOutput(stream, n - 1) \o ChunkData(stream, n)

\* base64 STANDARD: a text is a sequence of sextets 0..63, 64 is the pad '='
EncodeGroup(g) ==
    CASE Len(g) = 1 -> <<g[1] \div 4, (g[1] % 4) * 16, 64, 64>>
      [] Len(g) = 2 -> <<g[1] \div 4, (g[1] % 4) * 16 + g[2] \div 16, (g[2] % 16) * 4, 64>>
      [] OTHER -> <<g[1] \div 4, (g[1] % 4) * 16 + g[2] \div 16,
                    (g[2] % 16) * 4 + g[3] \div 64, g[3] % 64>>

RECURSIVE B64Encode(_)
B64Encode(bytes) ==
    IF bytes = <<>> THEN <<>>
    ELSE IF Len(bytes) <= 3 THEN EncodeGroup(bytes)
    ELSE EncodeGroup(SubSeq(bytes, 1, 3)) \o B64Encode(SubSeq(bytes, 4, Len(bytes)))

\* the bytes of one group of four sextets; the empty sequence stands for a
\* group that does not decode (a pad out of place, trailing bits set)
DecodeGroup(q, last) ==
    CASE q[1] = 64 \/ q[2] = 64 -> <<>>
      [] q[3] = 64 /\ q[4] = 64 ->
           IF last /\ q[2] % 16 = 0 THEN <<q[1] * 4 + q[2] \div 16>> ELSE <<>>
      [] q[3] = 64 -> <<>>
      [] q[4] = 64 ->
           IF last /\ q[3] % 4 = 0
           THEN <<q[1] * 4 + q[2] \div 16, (q[2] % 16) * 16 + q[3] \div 4>>
           ELSE <<>>
      [] OTHER -> <<q[1] * 4 + q[2] \div 16, (q[2] % 16) * 16 + q[3] \div 4,
                    (q[3] % 4) * 64 + q[4]>>

\* STANDARD.decode: Err for a text that is not canonical padded base64
RECURSIVE B64Decode(_)
B64Decode(text) ==
    IF text = <<>> THEN Ok(<<>>)
    ELSE IF Len(text) < 4 THEN Err("invalid base64")
    ELSE LET group == DecodeGroup(SubSeq(text, 1, 4), Len(text) = 4)
             rest == B64Decode(SubSeq(text, 5, Len(text)))
         IN  IF group = <<>> \/ ~rest.ok THEN Err("invalid base64")
             ELSE Ok(group \o rest.value)

\* a ReaderEvent in the reader channel
Chunk(stream, data) == [kind |-> "Chunk", stream |-> stream, data |-> data]

Done(stream) == [kind |-> "Done", stream |-> stream, data |-> <<>>]

ReadError(stream) == [kind |-> "ReadError", stream |-> stream, data |-> <<>>]

\* the fields of a RawStreamEvent besides its tag
NoFields == [data_b64 |-> <<>>, exit_code |-> None]

\* a payload of the first three bytes of the chunk
PayloadOfFirstGroup(data) ==
    [data_b64 |-> B64Encode(SubSeq(data, 1, IF Len(data) < 3 THEN Len(data) ELSE 3)),
     exit_code |-> None]

\* data_b64: STANDARD.encode(data)
Payload(data) == [data_b64 |-> B64Encode(data), exit_code |-> None]

ExitFields(code) == [data_b64 |-> <<>>, exit_code |-> code]

\* the handler has returned: reader_rx and tx are dropped
HandlerReturned == raw.pc = "returned"

\* send_event: tx.send(..).await completes with Ok once the body channel has
\* room, with Err once the response body is dropped
SendSucceeds == raw.client = "connected" /\ raw.body < BodyChannelCap

SendFails == raw.client = "gone"

\* the event, with its fields, is in the body channel
EmittedWith(r, event, fields) ==
    [r EXCEPT !.emitted = Append(r.emitted, event), !.data = Append(r.data, fields),
              !.body = r.body + 1]

Emitted(r, event) == EmittedWith(r, event, NoFields)

\* terminate_child: start_kill, then wait
TerminateChild(r) == [r EXCEPT !.child = IF r.child = "running" THEN "killed" ELSE "reaped"]

\* a Child that outlives its handle
DropChildDetached(r) == r

\* the Child is dropped with the task: kill_on_drop kills it when it still runs
DropChild(r) == [r EXCEPT !.child = IF r.child = "running" THEN "killed" ELSE r.child]

\* the task returns, its Child dropped
Returned(r, how) == [DropChild(r) EXCEPT !.pc = "returned", !.ended = how]

\* a failed send that is ignored: the loop goes on
AfterSendFailureIgnored(r) == [r EXCEPT !.ended = "disconnect", !.pc = "select"]

\* send_event(..).is_err(): terminate_child(&mut child).await; return
AfterSendFailure(r) == Returned(TerminateChild(r), "disconnect")

\* a failed wait ends the task and the loop of the select is entered again
AfterWaitErrorLoops == "select"

\* the return after the Error event of a failed wait
AfterWaitError == "returned"

\* a loop left as soon as the child is waited for
LoopControlOnExit(r) == IF r.exit_code # None THEN "send_exit" ELSE "select"

\* if exit_code.is_some() && stdout_done && stderr_done { break }
LoopControl(r) ==
    IF r.exit_code # None /\ r.stdout_done /\ r.stderr_done THEN "send_exit" ELSE "select"

\* the request body parses as a Tool Request, or it does not
Payloads == {"ok", "bad"}

InitRaw ==
    /\ InitEngineAtRest
    /\ envs = IdleEnvs
    /\ capture = IdleCapture
    /\ remote = IdleRemote /\ lookup = IdleLookup /\ watcher = IdleWatcher /\ tool = IdleTool /\ net = IdleNet /\ legacy = IdleLegacy
    /\ \E payload \in Payloads : \E pipes \in [OutputStreams -> BOOLEAN] :
       \E chunks \in [OutputStreams -> 0..MaxChunks] :
          raw = [IdleRaw EXCEPT !.pc = "request", !.payload = payload, !.pipes = pipes,
                                !.written = chunks, !.chunksLeft = chunks]

\* error_response(status, message)
ErrorResponse(r, status, message) ==
    [r EXCEPT !.pc = "responded", !.http = Some(status), !.error = Some(message)]

\* every failure of spawn_network_tool_process answered as an internal error
SpawnErrorStatusAlwaysInternal(validation) == INTERNAL_SERVER_ERROR

\* the match on the Err of spawn_network_tool_process
SpawnErrorStatus(validation) == IF validation THEN FORBIDDEN ELSE INTERNAL_SERVER_ERROR

\* the payload is a JsonRejection
RawRejectPayload ==
    /\ raw.pc = "request"
    /\ raw.payload = "bad"
    /\ raw' = ErrorResponse(raw, BAD_REQUEST, "Invalid request payload")
    /\ UNCHANGED <<policyVars, brokerVars, envs, capture, remote>>

\* the payload parsed: spawn_network_tool_process is entered
RawSpawnProcess(command, args, env) ==
    /\ raw.pc = "request"
    /\ raw.payload = "ok"
    /\ RequestStart("raw", command, args, env)

\* spawn_network_tool_process returned Err
RawSpawnError ==
    /\ raw.pc = "request"
    /\ req.pc = "done"
    /\ req.spawned # "yes"
    /\ raw' = IF req.spawned = "failed"
              THEN ErrorResponse(raw, SpawnErrorStatus(FALSE), "Failed to start subprocess")
              ELSE ErrorResponse(raw, SpawnErrorStatus(TRUE), Unwrap(req.result).type)
    /\ UNCHANGED <<policyVars, brokerVars, envs, capture, remote>>

\* child.stdout.take() or child.stderr.take() is None
RawPipeMissing ==
    /\ raw.pc = "request"
    /\ req.pc = "done"
    /\ req.spawned = "yes"
    /\ \E s \in OutputStreams : ~raw.pipes[s]
    /\ raw' = TerminateChild(
                 ErrorResponse([raw EXCEPT !.child = "running"], INTERNAL_SERVER_ERROR,
                               IF ~raw.pipes["stdout"] THEN "stdout pipe missing"
                               ELSE "stderr pipe missing"))
    /\ UNCHANGED <<policyVars, brokerVars, envs, capture, remote>>

\* the streaming task is spawned and the 200 response returned
RawAccepted ==
    /\ raw.pc = "request"
    /\ req.pc = "done"
    /\ req.spawned = "yes"
    /\ \A s \in OutputStreams : raw.pipes[s]
    /\ raw' = [raw EXCEPT !.pc = "send_start", !.http = Some(OK), !.child = "running"]
    /\ UNCHANGED <<policyVars, brokerVars, envs, capture, remote>>

\* send_event(Start) succeeded: the channel is made and the readers spawned
SendStart ==
    /\ raw.pc = "send_start"
    /\ SendSucceeds
    /\ raw' = [Emitted(raw, "start") EXCEPT
                  !.pc = "select",
                  !.readers = [s \in OutputStreams |-> "reading"]]
    /\ UNCHANGED <<policyVars, brokerVars, envs, capture, remote>>

\* send_event(Start) failed: the child is terminated, nothing was emitted
SendStartFails ==
    /\ raw.pc = "send_start"
    /\ SendFails
    /\ raw' = AfterSendFailure(raw)
    /\ UNCHANGED <<policyVars, brokerVars, envs, capture, remote>>

\* the child exits by itself
ChildExits(code) ==
    /\ raw.child = "running"
    /\ raw.http = Some(OK)
    /\ raw' = [raw EXCEPT !.child = "exited", !.status = Some(code)]
    /\ UNCHANGED <<policyVars, brokerVars, envs, capture, remote>>

\* the arm status = child.wait(), Ok
WaitOk ==
    /\ raw.pc = "select"
    /\ raw.exit_code = None
    /\ raw.child = "exited"
    /\ LET r == [raw EXCEPT !.exit_code = Some(Unwrap(raw.status)), !.child = "reaped"]
       IN  raw' = [r EXCEPT !.pc = LoopControl(r)]
    /\ UNCHANGED <<policyVars, brokerVars, envs, capture, remote>>

\* the arm status = child.wait(), Err: the Error event is to be sent
WaitErr ==
    /\ raw.pc = "select"
    /\ raw.exit_code = None
    /\ raw' = [raw EXCEPT !.pc = "send_wait_error"]
    /\ UNCHANGED <<policyVars, brokerVars, envs, capture, remote>>

\* let _ = send_event(Error); return
SendWaitError ==
    /\ raw.pc = "send_wait_error"
    /\ \/ /\ SendSucceeds
          /\ raw' = [Returned(Emitted(raw, "error"), "wait_error") EXCEPT
                        !.pc = AfterWaitError]
       \/ /\ SendFails
          /\ raw' = [Returned(raw, "wait_error") EXCEPT !.pc = AfterWaitError]
    /\ UNCHANGED <<policyVars, brokerVars, envs, capture, remote>>

\* read_output_stream: a read of bytes, sent as a Chunk; the task returns
\* when the send fails
ReaderChunk(s) ==
    /\ raw.readers[s] = "reading"
    /\ raw.chunksLeft[s] > 0
    /\ \/ /\ ~HandlerReturned
          /\ Len(raw.queue) < ReaderChannelCap
          /\ raw' = [raw EXCEPT
                        !.queue = Append(raw.queue,
                                    Chunk(s, ChunkData(s, raw.written[s] - raw.chunksLeft[s] + 1))),
                        !.chunksLeft[s] = raw.chunksLeft[s] - 1]
       \/ /\ HandlerReturned
          /\ raw' = [raw EXCEPT !.readers[s] = "returned",
                                !.chunksLeft[s] = raw.chunksLeft[s] - 1]
    /\ UNCHANGED <<policyVars, brokerVars, envs, capture, remote>>

\* read_output_stream: Ok(0), Done is sent and the task returns
ReaderEof(s) ==
    /\ raw.readers[s] = "reading"
    /\ raw.chunksLeft[s] = 0
    /\ \/ /\ ~HandlerReturned
          /\ Len(raw.queue) < ReaderChannelCap
          /\ raw' = [raw EXCEPT !.queue = Append(raw.queue, Done(s)),
                                !.readers[s] = "returned"]
       \/ /\ HandlerReturned
          /\ raw' = [raw EXCEPT !.readers[s] = "returned"]
    /\ UNCHANGED <<policyVars, brokerVars, envs, capture, remote>>

\* read_output_stream: the read fails, ReadError is sent and the task returns
ReaderFails(s) ==
    /\ raw.readers[s] = "reading"
    /\ \/ /\ ~HandlerReturned
          /\ Len(raw.queue) < ReaderChannelCap
          /\ raw' = [raw EXCEPT !.queue = Append(raw.queue, ReadError(s)),
                                !.readers[s] = "returned"]
       \/ /\ HandlerReturned
          /\ raw' = [raw EXCEPT !.readers[s] = "returned"]
    /\ UNCHANGED <<policyVars, brokerVars, envs, capture, remote>>

\* a reader arm that is disabled as soon as one stream is done
ReaderArmEnabledUntilOneDone == ~(raw.stdout_done \/ raw.stderr_done)

\* the precondition of the reader arm: if !(stdout_done && stderr_done)
ReaderArmEnabled == ~(raw.stdout_done /\ raw.stderr_done)

\* the arm maybe_event = reader_rx.recv(): None once both senders are dropped
\* and the channel is empty
RecvReaderEvent ==
    /\ raw.pc = "select"
    /\ ReaderArmEnabled
    /\ \/ raw.queue # <<>>
       \/ \A s \in OutputStreams : raw.readers[s] = "returned"
    /\ raw' =
         IF raw.queue = <<>>
         THEN LET r == [raw EXCEPT !.stdout_done = TRUE, !.stderr_done = TRUE]
              IN  [r EXCEPT !.pc = LoopControl(r)]
         ELSE LET event == Head(raw.queue)
                  rest == [raw EXCEPT !.queue = Tail(raw.queue)]
              IN  CASE event.kind = "Chunk" ->
                         [rest EXCEPT !.pc = "send_chunk", !.pending = Some(event)]
                    [] event.kind = "Done" ->
                         LET r == IF event.stream = "stdout"
                                  THEN [rest EXCEPT !.stdout_done = TRUE]
                                  ELSE [rest EXCEPT !.stderr_done = TRUE]
                         IN  [r EXCEPT !.pc = LoopControl(r)]
                    [] event.kind = "ReadError" ->
                         [rest EXCEPT !.pc = "send_read_error"]
    /\ UNCHANGED <<policyVars, brokerVars, envs, capture, remote>>

\* send_event(Stdout or Stderr) succeeded
SendChunk ==
    /\ raw.pc = "send_chunk"
    /\ SendSucceeds
    /\ LET event == Unwrap(raw.pending)
           r == [EmittedWith(raw, event.stream, Payload(event.data)) EXCEPT
                    !.pending = None]
       IN  raw' = [r EXCEPT !.pc = LoopControl(r)]
    /\ UNCHANGED <<policyVars, brokerVars, envs, capture, remote>>

\* send_event(Stdout or Stderr) failed: terminate_child; return
SendChunkFails ==
    /\ raw.pc = "send_chunk"
    /\ SendFails
    /\ raw' = [AfterSendFailure(raw) EXCEPT !.pending = None]
    /\ UNCHANGED <<policyVars, brokerVars, envs, capture, remote>>

\* let _ = send_event(Error); terminate_child; return
SendReadError ==
    /\ raw.pc = "send_read_error"
    /\ \/ /\ SendSucceeds
          /\ raw' = Returned(TerminateChild(Emitted(raw, "error")), "read_error")
       \/ /\ SendFails
          /\ raw' = Returned(TerminateChild(raw), "read_error")
    /\ UNCHANGED <<policyVars, brokerVars, envs, capture, remote>>

\* exit_code.unwrap_or(None)
FinalExitCode(r) == IF r.exit_code = None THEN None ELSE Unwrap(r.exit_code)

\* send_event(Exit) after the loop
SendExit ==
    /\ raw.pc = "send_exit"
    /\ \/ /\ SendSucceeds
          /\ raw' = Returned(EmittedWith(raw, "exit", ExitFields(FinalExitCode(raw))),
                             "exit")
       \/ /\ SendFails
          /\ raw' = AfterSendFailure(raw)
    /\ UNCHANGED <<policyVars, brokerVars, envs, capture, remote>>

\* the client reads one event of the response body
ClientReads ==
    /\ raw.client = "connected"
    /\ raw.body > 0
    /\ raw' = [raw EXCEPT !.body = raw.body - 1]
    /\ UNCHANGED <<policyVars, brokerVars, envs, capture, remote>>

\* the client goes away: the response body and its receiver are dropped
ClientDisconnects ==
    /\ raw.client = "connected"
    /\ raw.http = Some(OK)
    /\ raw' = [raw EXCEPT !.client = "gone", !.body = 0]
    /\ UNCHANGED <<policyVars, brokerVars, envs, capture, remote>>

NextRaw ==
    \/ RawRejectPayload
    \/ \E command \in Commands : \E args \in ArgLists : \E env \in UserEnvs :
           RawSpawnProcess(command, args, env)
    \/ ValidateResolve
    \/ ValidateRead
    \/ ValidateEvaluate
    \/ Spawn
    \/ RawSpawnError
    \/ RawPipeMissing
    \/ RawAccepted
    \/ SendStart
    \/ SendStartFails
    \/ \E code \in ExitCodes : ChildExits(code)
    \/ WaitOk
    \/ WaitErr
    \/ SendWaitError
    \/ \E s \in OutputStreams : ReaderChunk(s)
    \/ \E s \in OutputStreams : ReaderEof(s)
    \/ \E s \in OutputStreams : ReaderFails(s)
    \/ RecvReaderEvent
    \/ SendChunk
    \/ SendChunkFails
    \/ SendReadError
    \/ SendExit
    \/ ClientReads
    \/ ClientDisconnects

SpecRaw == InitRaw /\ [][NextRaw]_vars

\* the steps of the streaming task
StreamTaskStep ==
    \/ SendStart
    \/ SendStartFails
    \/ WaitOk
    \/ SendWaitError
    \/ RecvReaderEvent
    \/ SendChunk
    \/ SendChunkFails
    \/ SendReadError
    \/ SendExit

\* the runtime schedules the streaming task and each reader task, the child
\* terminates, and the client keeps reading while it is connected
RawFairness ==
    /\ WF_vars(StreamTaskStep)
    /\ WF_vars(ReaderChunk("stdout") \/ ReaderEof("stdout"))
    /\ WF_vars(ReaderChunk("stderr") \/ ReaderEof("stderr"))
    /\ WF_vars(\E code \in ExitCodes : ChildExits(code))
    /\ WF_vars(ClientReads)

SpecRawFair == InitRaw /\ [][NextRaw]_vars /\ RawFairness

(***************************************************************************)
(* The remote client: run_remote_from_env of the run-remote binary, which  *)
(* posts the request to the raw endpoint and replays the event stream.     *)
(***************************************************************************)
LOCAL_FAILURE_EXIT_CODE == 125

REMOTE_EXIT_CODE_UNAVAILABLE == 1

\* a RawStreamEvent on the wire
WireEvent(type, data_b64, exit_code) ==
    [type |-> type, data_b64 |-> data_b64, exit_code |-> exit_code]

NoEvent == WireEvent("none", <<>>, None)

\* the lines a response body is made of: the five events, a payload that is
\* not base64 (a pad in second place), a line that is not an event, and an
\* empty line
BodyLines ==
    { WireEvent("start", <<>>, None),
      WireEvent("stdout", B64Encode(<<104, 105>>), None),
      WireEvent("stderr", B64Encode(<<255, 0>>), None),
      WireEvent("stderr", <<26, 64, 6, 33>>, None),
      WireEvent("exit", <<>>, Some(7)),
      WireEvent("exit", <<>>, Some(LOCAL_FAILURE_EXIT_CODE)),
      WireEvent("exit", <<>>, None),
      WireEvent("error", <<>>, None),
      WireEvent("junk", <<>>, None),
      WireEvent("blank", <<>>, None) }

\* the bodies of a response: up to MaxEvents lines
Bodies == UNION {[1..n -> BodyLines] : n \in 0..MaxEvents}

\* a piece of the body: the two halves of the JSON text of an event, a text
\* that is no event, and the newline
Piece(part, event) == [part |-> part, event |-> event]

Newline == Piece("newline", NoEvent)

\* serde_json::to_vec(event)
ToJson(event) == <<Piece("head", event), Piece("tail", event)>>

\* the bytes of one line of the body, its newline included
WireLine(line) ==
    CASE line.type = "blank" -> <<Newline>>
      [] line.type = "junk" -> <<Piece("junk", NoEvent), Newline>>
      [] OTHER -> ToJson(line) \o <<Newline>>

\* the bytes of the body
RECURSIVE Wire(_)
Wire(lines) == IF lines = <<>> THEN <<>> ELSE WireLine(Head(lines)) \o Wire(Tail(lines))

\* serde_json::from_slice: the whole line is the JSON text of one event
FromJson(line) ==
    IF Len(line) = 2 /\ line = ToJson(line[1].event) /\ line[1].part = "head"
    THEN Ok(line[1].event)
    ELSE Err("invalid event JSON")

\* a RemoteClientError
RemoteClientErrorAbout(type, message, detail) ==
    [type |-> type, message |-> message, status |-> None, detail |-> detail]

RemoteClientError(type, message) == RemoteClientErrorAbout(type, message, <<>>)

\* RemoteClientError::ServerRejected { status, message }
ServerRejected(status, message) ==
    [type |-> "ServerRejected", message |-> "server rejected request",
     status |-> Some(status), detail |-> message]

\* an exit event without a code read as success
RemoteExitCodeOrZero(code) == IF code = None THEN 0 ELSE Unwrap(code)

\* remote.unwrap_or(REMOTE_EXIT_CODE_UNAVAILABLE)
RemoteExitCode(code) ==
    IF code = None THEN REMOTE_EXIT_CODE_UNAVAILABLE ELSE Unwrap(code)

\* the ? of handle_event_line: the error becomes the result of process_stream
Failed(r, type, message) ==
    [r EXCEPT !.result = Some(Err(RemoteClientError(type, message)))]

\* write_all(&bytes).and_then(flush) on the writer of one stream
WriteAll(r, stream, bytes) ==
    IF r.writable[stream]
    THEN [r EXCEPT !.out[stream] = r.out[stream] \o bytes]
    ELSE Failed(r, "OutputWrite", "failed to write output")

\* handle_event_line
HandleEventLine(r0, line) ==
    LET parsed == FromJson(line)
        r == [r0 EXCEPT !.handled =
                 Append(r0.handled, IF parsed.ok THEN parsed.value ELSE NoEvent)]
    IN  IF ~parsed.ok THEN Failed(r, "Protocol", "invalid event JSON")
        ELSE LET event == parsed.value
             IN  CASE event.type = "start" -> [r EXCEPT !.saw_start = TRUE]
                   [] event.type \in OutputStreams ->
                        IF ~B64Decode(event.data_b64).ok
                        THEN Failed(r, "Protocol", "invalid base64 payload")
                        ELSE WriteAll(r, event.type, B64Decode(event.data_b64).value)
                   [] event.type = "exit" ->
                        IF ~r.saw_start
                        THEN Failed(r, "Protocol", "received exit event before start event")
                        ELSE [r EXCEPT !.exit_code = Some(RemoteExitCode(event.exit_code))]
                   [] OTHER -> Failed(r, "RemoteRuntime", "remote runtime error")

\* buffer.iter().position(|byte| *byte == b'\n'), 0 for None
RECURSIVE NewlineIndex(_, _)
NewlineIndex(buffer, i) ==
    IF i > Len(buffer) THEN 0
    ELSE IF buffer[i] = Newline THEN i
    ELSE NewlineIndex(buffer, i + 1)

\* an inner loop that handles one line for each chunk that arrives
DrainFirstLine(r) ==
    LET newline_index == NewlineIndex(r.buffer, 1)
    IN  IF newline_index = 0 THEN r
        ELSE LET line == SubSeq(r.buffer, 1, newline_index - 1)
                 rest == [r EXCEPT !.buffer =
                             SubSeq(r.buffer, newline_index + 1, Len(r.buffer))]
             IN  IF line = <<>> THEN rest
                 ELSE LET h == HandleEventLine(rest, line)
                      IN  IF h.result # None THEN h
                          ELSE IF h.exit_code # None
                          THEN [h EXCEPT !.result = Some(Ok(Unwrap(h.exit_code)))]
                          ELSE h

\* the inner loop of process_stream: every complete line of the buffer is
\* drained and handled, up to an error or an exit event
RECURSIVE DrainLines(_)
DrainLines(r) ==
    LET newline_index == NewlineIndex(r.buffer, 1)
    IN  IF newline_index = 0 THEN r
        ELSE LET line == SubSeq(r.buffer, 1, newline_index - 1)
                 rest == [r EXCEPT !.buffer =
                             SubSeq(r.buffer, newline_index + 1, Len(r.buffer))]
             IN  IF line = <<>> THEN DrainLines(rest)
                 ELSE LET h == HandleEventLine(rest, line)
                      IN  IF h.result # None THEN h
                          ELSE IF h.exit_code # None
                          THEN [h EXCEPT !.result = Some(Ok(Unwrap(h.exit_code)))]
                          ELSE DrainLines(h)

\* a stream that ends without exit taken for success
StreamEndResultLenient(exit_code) == Ok(IF exit_code = None THEN 0 ELSE Unwrap(exit_code))

\* the match on exit_code that ends process_stream
StreamEndResult(exit_code) ==
    IF exit_code = None
    THEN Err(RemoteClientError("Protocol", "stream ended before exit event"))
    ELSE Ok(Unwrap(exit_code))

\* a failure that exits like a failed remote child
MainExitCodeOfChild(result) == IF result.ok THEN result.value ELSE REMOTE_EXIT_CODE_UNAVAILABLE

\* main of run-remote: the match on the result of run_remote_from_env
MainExitCode(result) == IF result.ok THEN result.value ELSE LOCAL_FAILURE_EXIT_CODE

\* the white space str::trim removes
WhiteSpace == {" ", "\n"}

\* str::trim over a text of words
RECURSIVE TrimStart(_)
TrimStart(text) ==
    IF text # <<>> /\ Head(text) \in WhiteSpace THEN TrimStart(Tail(text)) ELSE text

RECURSIVE TrimEnd(_)
TrimEnd(text) ==
    IF text # <<>> /\ text[Len(text)] \in WhiteSpace
    THEN TrimEnd(SubSeq(text, 1, Len(text) - 1))
    ELSE text

Trim(text) == TrimEnd(TrimStart(text))

\* the position of the last "--" of the arguments
RECURSIVE LastDelimiterPosition(_, _)
LastDelimiterPosition(args, i) ==
    IF i > Len(args) THEN 0
    ELSE IF LastDelimiterPosition(args, i + 1) # 0 THEN LastDelimiterPosition(args, i + 1)
    ELSE IF args[i] = <<"--">> THEN i
    ELSE 0

\* args.iter().position(|arg| arg == "--"), counted from 1, 0 for None
RECURSIVE DelimiterPosition(_, _)
DelimiterPosition(args, i) ==
    IF i > Len(args) THEN 0
    ELSE IF args[i] = <<"--">> THEN i
    ELSE DelimiterPosition(args, i + 1)

\* value.split(','): the pieces between the commas
RECURSIVE SplitCommas(_, _)
SplitCommas(value, piece) ==
    IF value = <<>> THEN <<piece>>
    ELSE IF Head(value) = "," THEN <<piece>> \o SplitCommas(Tail(value), <<>>)
    ELSE SplitCommas(Tail(value), Append(piece, Head(value)))

\* the loop of append_keep_env over the pieces: trimmed, the empty ones
\* skipped, a name pushed when seen.insert says it is new
RECURSIVE PushNames(_, _)
PushNames(pieces, keep_env) ==
    IF pieces = <<>> THEN keep_env
    ELSE LET trimmed == Trim(Head(pieces))
         IN  IF trimmed = <<>> \/ InSeq(trimmed[1], keep_env)
             THEN PushNames(Tail(pieces), keep_env)
             ELSE PushNames(Tail(pieces), Append(keep_env, trimmed[1]))

\* append_keep_env
AppendKeepEnv(value, keep_env) == PushNames(SplitCommas(value, <<>>), keep_env)

\* the while loop of parse_args over the arguments before the delimiter
RECURSIVE Options(_, _, _, _)
Options(args, index, delimiter, keep_env) ==
    IF index >= delimiter THEN Ok(keep_env)
    ELSE LET arg == args[index]
         IN  IF arg # <<>> /\ Head(arg) = "--keep-env="
             THEN Options(args, index + 1, delimiter, AppendKeepEnv(Tail(arg), keep_env))
             ELSE IF arg = <<"--keep-env">>
             THEN IF index + 1 >= delimiter
                  THEN Err(RemoteClientError("MissingKeepEnvValue",
                                             "missing value for --keep-env"))
                  ELSE Options(args, index + 2, delimiter,
                               AppendKeepEnv(args[index + 1], keep_env))
             ELSE Err(RemoteClientErrorAbout("UnknownOption", "unknown option", arg))

\* parse_args
ParseArgs(args) ==
    LET delimiter == DelimiterPosition(args, 1)
    IN  IF delimiter = 0
        THEN Err(RemoteClientError("MissingDelimiter",
                                   "missing required -- delimiter before remote executable"))
        ELSE LET keep_env == Options(args, 1, delimiter, <<>>)
                 command == SubSeq(args, delimiter + 1, Len(args))
             IN  IF ~keep_env.ok THEN keep_env
                 ELSE IF command = <<>>
                 THEN Err(RemoteClientError("MissingExecutable",
                                            "missing remote executable after --"))
                 ELSE Ok([keep_env |-> keep_env.value, executable |-> Head(command),
                          args |-> Tail(command)])

\* the names a local environment may hold, in the order of String
NameOrder == <<"ALPHA", "BETA", "GAMMA">>

\* missing.join(", ")
RECURSIVE Join(_)
Join(names) ==
    IF names = <<>> THEN <<>>
    ELSE IF Len(names) = 1 THEN names
    ELSE <<Head(names), ", ">> \o Join(Tail(names))

\* missing.sort(); missing.dedup()
SortDedup(names) == SelectSeq(NameOrder, LAMBDA n : InSeq(n, names))

\* a failure that names the first missing variable only
MissingNamesFirstOnly(keep_env, local) ==
    LET missing == SelectSeq(keep_env, LAMBDA n : n \notin DOMAIN local)
    IN  IF missing = <<>> THEN <<>> ELSE <<Head(missing)>>

\* the names lookup returns None for, in the order of keep_env
MissingNames(keep_env, local) == SelectSeq(keep_env, LAMBDA n : n \notin DOMAIN local)

\* collect_forwarded_env over the local environment
CollectForwardedEnv(keep_env, local) ==
    LET missing == MissingNames(keep_env, local)
    IN  IF missing = <<>>
        THEN Ok([n \in {keep_env[i] : i \in 1..Len(keep_env)} |-> local[n]])
        ELSE Err(RemoteClientErrorAbout("MissingLocalEnv",
                     "local environment variable(s) are not set", Join(SortDedup(missing))))

\* Url::parse, has_host and the scheme test of resolve_server_url
IsFullUrl(url) ==
    /\ Len(url) >= 3
    /\ url[1] \in {"http", "https"}
    /\ url[2] = "://"
    /\ url[3] \notin WhiteSpace

\* resolve_server_url
ResolveServerUrl(var) ==
    IF var = None \/ Trim(Unwrap(var)) = <<>>
    THEN Err(RemoteClientError("MissingServerUrl", "RUN_REMOTE_SERVER must be set"))
    ELSE IF ~IsFullUrl(Trim(Unwrap(var)))
    THEN Err(RemoteClientError("InvalidServerUrl", "RUN_REMOTE_SERVER must be a full URL"))
    ELSE Ok(Trim(Unwrap(var)))

\* serde_json::from_str::<RawErrorBody>(&body): an object with an error field,
\* white space allowed around it
ParseErrorBody(body) ==
    LET json == Trim(body)
    IN  IF Len(json) = 3 /\ json[1] = "{\"error\":" /\ json[3] = "}"
        THEN Ok(<<json[2]>>)
        ELSE Err("not an error body")

\* .map(|decoded| decoded.error).unwrap_or_else(|_| body.trim().to_string())
RejectionMessage(body) ==
    IF ParseErrorBody(body).ok THEN ParseErrorBody(body).value ELSE Trim(body)

\* every status taken for a success
IsSuccessWhatever(status) == TRUE

\* response.status().is_success()
IsSuccess(status) == status \in 200..299

\* the words of the arguments of run-remote
RemoteArgs ==
    { <<"--">>, <<"--keep-env">>,
      <<"--keep-env=", "BETA", ",", " ", "ALPHA", ",", ",">>,
      <<"GAMMA", ",", "BETA">>, <<"echo">>, <<"-v">> }

\* the argument lists of run-remote: up to MaxArgs arguments
RemoteArgLists == UNION {[1..n -> RemoteArgs] : n \in 0..MaxArgs}

\* the local environments: each name unset or set to its value
LocalEnvs ==
    {[n \in names |-> CASE n = "ALPHA" -> "a" [] n = "BETA" -> "b" [] OTHER -> "g"] :
        names \in SUBSET {"ALPHA", "BETA", "GAMMA"}}

\* the values of RUN_REMOTE_SERVER
ServerUrls ==
    { None, Some(<<" ">>), Some(<<"127.0.0.1:8000">>), Some(<<"ftp", "://", "host">>),
      Some(<<" ", "http", "://", "127.0.0.1:8000", "/raw", "\n">>) }

\* std::env::current_dir(): an Err, or the directory
CurrentDirs == {None, Some(<<"", "work">>)}

\* what comes back from send(): an Err, or a response with its status
Responses == {None, Some(OK), Some(FORBIDDEN), Some(INTERNAL_SERVER_ERROR)}

\* the JSON text of a line of an event stream
LineText(line) ==
    CASE line.type = "start" -> "{\"type\":\"start\"}"
      [] line.type = "stdout" -> "{\"type\":\"stdout\",\"data_b64\":\"aGk=\"}"
      [] OTHER -> "{\"type\":\"exit\",\"exitCode\":7}"

\* a body that reads as an event stream
StreamLines ==
    << WireEvent("start", <<>>, None), WireEvent("stdout", B64Encode(<<104, 105>>), None),
       WireEvent("exit", <<>>, Some(7)) >>

\* the bodies of a response that is not a success: error objects, plain
\* texts, an empty body, and a body that reads as an event stream
RejectedBodies ==
    { [text |-> <<"{\"error\":", "blocked", "}">>, lines |-> <<>>],
      [text |-> <<" ", "{\"error\":", "blocked", "}", "\n">>, lines |-> <<>>],
      [text |-> <<"{\"message\":", "blocked", "}">>, lines |-> <<>>],
      [text |-> <<" ", "denied", " ", "by", " ", "proxy", "\n", "\n">>, lines |-> <<>>],
      [text |-> <<>>, lines |-> <<>>],
      [text |-> <<LineText(StreamLines[1]), "\n", LineText(StreamLines[2]), "\n",
                  LineText(StreamLines[3]), "\n">>,
       lines |-> StreamLines] }

\* run-remote started with these arguments in this environment, the server
\* answering with this response
RemoteStarted(args, local, url, cwd, response, text, lines) ==
    remote = [IdleRemote EXCEPT !.pc = "main", !.args = args, !.local = local, !.url = url,
                                !.cwd = cwd, !.response = response, !.text = text,
                                !.lines = lines]

\* arguments, a server URL and a directory nothing is wrong with
PlainArgs == << <<"--">>, <<"echo">>, <<"-v">> >>

PlainUrl == Some(<<"http", "://", "127.0.0.1:8000", "/raw">>)

PlainDir == Some(<<"", "work">>)

InitRemote ==
    /\ InitEngineAtRest
    /\ envs = IdleEnvs
    /\ capture = IdleCapture
    /\ raw = IdleRaw
    /\ lookup = IdleLookup
    /\ watcher = IdleWatcher /\ tool = IdleTool /\ net = IdleNet /\ legacy = IdleLegacy
    /\ \/ \E args \in RemoteArgLists : \E local \in LocalEnvs :
             RemoteStarted(args, local, PlainUrl, PlainDir, Some(OK), <<>>, <<>>)
       \/ \E url \in ServerUrls : \E cwd \in CurrentDirs :
             RemoteStarted(PlainArgs, EmptyMap, url, cwd, Some(OK), <<>>, <<>>)
       \/ \E response \in Responses \ {Some(OK)} : \E body \in RejectedBodies :
             RemoteStarted(PlainArgs, EmptyMap, PlainUrl, PlainDir, response,
                           body.text, body.lines)
       \/ \E lines \in Bodies :
             RemoteStarted(PlainArgs, EmptyMap, PlainUrl, PlainDir, Some(OK), <<>>, lines)

\* run_remote_from_env_with_io up to the call of run_remote_request
RemoteSetup ==
    /\ remote.pc = "main"
    /\ LET parsed == ParseArgs(remote.args)
           server_url == ResolveServerUrl(remote.url)
           env == CollectForwardedEnv(parsed.value.keep_env, remote.local)
           failure(error) == [remote EXCEPT !.pc = "returned", !.result = Some(Err(error))]
       IN  remote' =
             IF ~parsed.ok THEN failure(parsed.error)
             ELSE IF ~server_url.ok THEN failure(server_url.error)
             ELSE IF ~env.ok THEN failure(env.error)
             ELSE IF remote.cwd = None
             THEN failure(RemoteClientError("CurrentDir",
                              "failed to determine current working directory"))
             ELSE [remote EXCEPT
                      !.pc = "send",
                      !.payload = Some([executable |-> parsed.value.executable,
                                        args |-> parsed.value.args,
                                        cwd |-> remote.cwd,
                                        env |-> env.value])]
    /\ UNCHANGED <<policyVars, brokerVars, envs, capture, raw>>

\* run_remote_request: send, then the status of the response; the body of a
\* response that is no success is read as a text, which may fail
RemoteSend ==
    /\ remote.pc = "send"
    /\ LET sent == [remote EXCEPT !.sent = TRUE]
       IN  \/ /\ remote.response = None
              /\ remote' = [Failed(sent, "Request", "request failed") EXCEPT
                               !.pc = "returned"]
           \/ /\ remote.response # None
              /\ ~IsSuccess(Unwrap(remote.response))
              /\ \/ remote' = [sent EXCEPT
                                  !.pc = "returned",
                                  !.result = Some(Err(ServerRejected(Unwrap(remote.response),
                                                          RejectionMessage(remote.text))))]
                 \/ remote' = [Failed(sent, "Request", "request failed") EXCEPT
                                  !.pc = "returned"]
           \/ /\ remote.response # None
              /\ IsSuccess(Unwrap(remote.response))
              /\ remote' = [sent EXCEPT !.pc = "stream"]
    /\ UNCHANGED <<policyVars, brokerVars, envs, capture, raw>>

\* one turn of the outer loop of process_stream: a chunk of n bytes arrives
RemoteChunk(n) ==
    /\ remote.pc = "stream"
    /\ remote.pos + n <= Len(Wire(remote.lines))
    /\ LET chunk == SubSeq(Wire(remote.lines), remote.pos + 1, remote.pos + n)
           r == DrainLines([remote EXCEPT !.pos = remote.pos + n,
                                          !.buffer = remote.buffer \o chunk])
       IN  remote' = IF r.result # None THEN [r EXCEPT !.pc = "returned"] ELSE r
    /\ UNCHANGED <<policyVars, brokerVars, envs, capture, raw>>

\* stream.next() is Some(Err): the transport failed
RemoteChunkFails ==
    /\ remote.pc = "stream"
    /\ remote' = [Failed(remote, "Request", "request failed") EXCEPT !.pc = "returned"]
    /\ UNCHANGED <<policyVars, brokerVars, envs, capture, raw>>

\* stream.next() is None: the body is over, with or without the newline of
\* its last line; what is left in the buffer is handled as a line
RemoteStreamEnd ==
    /\ remote.pc = "stream"
    /\ \/ remote.pos = Len(Wire(remote.lines))
       \/ remote.pos = Len(Wire(remote.lines)) - 1
    /\ LET r == IF remote.buffer # <<>>
                THEN HandleEventLine([remote EXCEPT !.buffer = <<>>], remote.buffer)
                ELSE remote
       IN  remote' = IF r.result # None THEN [r EXCEPT !.pc = "returned", !.eof = TRUE]
                     ELSE [r EXCEPT !.pc = "returned", !.eof = TRUE,
                                    !.result = Some(StreamEndResult(r.exit_code))]
    /\ UNCHANGED <<policyVars, brokerVars, envs, capture, raw>>

\* the reader of one of the client's output streams goes away
WriterCloses(s) ==
    /\ remote.pc = "stream"
    /\ remote.writable[s]
    /\ remote' = [remote EXCEPT !.writable[s] = FALSE]
    /\ UNCHANGED <<policyVars, brokerVars, envs, capture, raw>>

\* main of run-remote: std::process::exit(exit_code)
RemoteExit ==
    /\ remote.pc = "returned"
    /\ remote' = [remote EXCEPT !.pc = "exited",
                                !.status = Some(MainExitCode(Unwrap(remote.result)))]
    /\ UNCHANGED <<policyVars, brokerVars, envs, capture, raw>>

NextRemote ==
    \/ RemoteSetup
    \/ RemoteSend
    \/ \E n \in 1..MaxChunkLen : RemoteChunk(n)
    \/ RemoteChunkFails
    \/ RemoteStreamEnd
    \/ \E s \in OutputStreams : WriterCloses(s)
    \/ RemoteExit

SpecRemote == InitRemote /\ [][NextRemote]_vars

(***************************************************************************)
(* SpecLookup: spawn_network_tool_process up to the spawn, in a broker     *)
(* process with any PATH and any working directory.  A PATH is the list of *)
(* its directories, an empty entry being the empty path.                   *)
(***************************************************************************)
\* the values of PATH: unset, absolute directories in either order, an empty entry
\* first, a relative directory
PathValues ==
    { None,
      Some(HostPath),
      Some(<< <<"", "srv">>, <<"", "bin">> >>),
      Some(<< <<"", "bin">>, <<"", "srv">> >>),
      Some(<< <<"", "usr", "local", "bin">> >>),
      Some(<< <<>>, <<"", "bin">> >>),
      Some(<< <<"bin">> >>) }

\* the working directories of the broker process
WorkingDirs == { <<"">>, <<"", "srv">>, <<"", "bin">> }

\* the executable tokens a caller sends: bare names, absolute paths, a relative
\* path with a separator
LookupCommands ==
    { <<"echo">>, <<"sh">>, <<"dash">>, <<"data">>, <<"nosuch">>,
      <<"", "bin", "sh">>, <<"", "srv", "data">>, <<"", "srv", "nosuch">>, <<"bin", "echo">> }

InitLookup ==
    /\ InitEngineAtRest
    /\ envs = IdleEnvs
    /\ capture = IdleCapture
    /\ raw = IdleRaw
    /\ remote = IdleRemote
    /\ watcher = IdleWatcher /\ tool = IdleTool /\ net = IdleNet /\ legacy = IdleLegacy
    /\ \E command \in LookupCommands : \E path \in PathValues : \E cwd \in WorkingDirs :
          lookup = [IdleLookup EXCEPT !.pc = "resolve", !.command = command,
                                      !.path = path, !.cwd = cwd]

\* resolve_executable_path(&input.executable) and its map_err
LookupResolve ==
    /\ lookup.pc = "resolve"
    /\ LET result == ExecutorResolveIn(lookup.path, lookup.cwd, lookup.command)
       IN  lookup' = [lookup EXCEPT !.resolved = Some(result),
                                    !.pc = IF result.ok THEN "validate" ELSE "failed"]
    /\ UNCHANGED <<policyVars, executorVars, watcher, tool, net, legacy>>

\* validate_invocation resolves the path of the policy input
LookupValidate ==
    /\ lookup.pc = "validate"
    /\ LET result == PolicyResolveIn(lookup.path, lookup.cwd, lookup.command)
       IN  lookup' = [lookup EXCEPT !.policy_path = Some(result),
                                    !.pc = IF result.ok THEN "spawn" ELSE "failed"]
    /\ UNCHANGED <<policyVars, executorVars, watcher, tool, net, legacy>>

\* Command::new(&resolved_executable), for a request the policy lets through
LookupSpawn ==
    /\ lookup.pc = "spawn"
    /\ lookup' = [lookup EXCEPT !.program = Some(Unwrap(lookup.resolved).value),
                                !.pc = "spawned"]
    /\ UNCHANGED <<policyVars, executorVars, watcher, tool, net, legacy>>

NextLookup ==
    \/ LookupResolve
    \/ LookupValidate
    \/ LookupSpawn

SpecLookup == InitLookup /\ [][NextLookup]_vars

(***************************************************************************)
(* SpecWatcher: start_watcher called more than once on one engine, the     *)
(* notifier thread and the debounce task it starts, and the reload() calls *)
(* of the task.  A signal in the reload channel carries, as history, the   *)
(* number of debounce sleeps that had ended when it was sent.              *)
(***************************************************************************)
\* AtomicBool::compare_exchange that succeeds whatever the flag holds
CompareExchangeUnconditional(flag, current, new) == [ok |-> TRUE, value |-> new]

\* AtomicBool::compare_exchange(current, new), SeqCst
CompareExchange(flag, current, new) ==
    IF flag = current THEN [ok |-> TRUE, value |-> new] ELSE [ok |-> FALSE, value |-> flag]

\* a debounce task that leaves the channel as it finds it
NotDrained(channel) == channel

\* while reload_signal_rx.try_recv().is_ok() {}
Drained(channel) == <<>>

\* reload_signal_tx.send(()) of the notifier thread
Signalled(w) == [w EXCEPT !.channel = Append(w.channel, w.epoch)]

\* the reload sender is dropped: the notifier thread has returned
SenderDropped(w) == w.thread = "returned"

InitWatcher ==
    /\ Constructed(SourcesSet, {DirMissing, BundleDir, DirWith("syntax_error", "cmd_echo")},
                   {None, Some(LegacyFile("policy", LegacyEchoPolicy))})
    /\ editsLeft = 0
    /\ reloadsLeft = 0
    /\ envs = IdleEnvs
    /\ capture = IdleCapture
    /\ raw = IdleRaw
    /\ remote = IdleRemote
    /\ lookup = IdleLookup
    /\ watcher = IdleWatcher /\ tool = IdleTool /\ net = IdleNet /\ legacy = IdleLegacy

\* start_watcher is entered: the match on sources.policy_dir
StartWatcherEnter(c) ==
    /\ watcher.calls[c] = "idle"
    /\ watcher' = [watcher EXCEPT
                      !.calls[c] = IF sources.policy_dir = None THEN "returned"
                                   ELSE "exchange"]
    /\ UNCHANGED <<policyVars, executorVars, lookup, tool, net, legacy>>

\* watcher_started.compare_exchange(false, true) and the early return
StartWatcherExchange(c) ==
    /\ watcher.calls[c] = "exchange"
    /\ LET swap == CompareExchange(watcher.started, FALSE, TRUE)
       IN  watcher' = [watcher EXCEPT
                          !.started = swap.value,
                          !.calls[c] = IF swap.ok THEN "spawn_task" ELSE "returned"]
    /\ UNCHANGED <<policyVars, executorVars, lookup, tool, net, legacy>>

\* the channel is made and tokio::spawn starts the debounce task
StartWatcherSpawnTask(c) ==
    /\ watcher.calls[c] = "spawn_task"
    /\ watcher' = [watcher EXCEPT
                      !.calls[c] = "spawn_thread",
                      !.tasks = watcher.tasks + 1,
                      !.task = "recv"]
    /\ UNCHANGED <<policyVars, executorVars, lookup, tool, net, legacy>>

\* std::thread::spawn starts the notifier thread; start_watcher returns
StartWatcherSpawnThread(c) ==
    /\ watcher.calls[c] = "spawn_thread"
    /\ watcher' = [watcher EXCEPT
                      !.calls[c] = "returned",
                      !.threads = watcher.threads + 1,
                      !.thread = "new"]
    /\ UNCHANGED <<policyVars, executorVars, lookup, tool, net, legacy>>

\* RecommendedWatcher::new: on failure the thread signals once and returns
NotifierNew(ok) ==
    /\ watcher.thread = "new"
    /\ watcher' = IF ok THEN [watcher EXCEPT !.thread = "watch"]
                  ELSE [Signalled(watcher) EXCEPT
                           !.thread = "returned", !.failure = Some("notifier")]
    /\ UNCHANGED <<policyVars, executorVars, lookup, tool, net, legacy>>

\* watcher.watch(&policy_dir, Recursive): on failure the thread signals once and
\* returns
NotifierWatch(ok) ==
    /\ watcher.thread = "watch"
    /\ watcher' = IF ok THEN [watcher EXCEPT !.thread = "events"]
                  ELSE [Signalled(watcher) EXCEPT
                           !.thread = "returned", !.failure = Some("watch")]
    /\ UNCHANGED <<policyVars, executorVars, lookup, tool, net, legacy>>

\* event_rx.recv() returns an event or an event error: either way one signal
NotifierEvent(ok) ==
    /\ watcher.thread = "events"
    /\ watcher.eventsLeft > 0
    /\ watcher' = [Signalled(watcher) EXCEPT !.eventsLeft = watcher.eventsLeft - 1]
    /\ UNCHANGED <<policyVars, executorVars, lookup, tool, net, legacy>>

\* reload_signal_rx.recv().await: a signal, or None once the sender is dropped
\* and the channel is empty
DebounceRecv ==
    /\ watcher.task = "recv"
    /\ watcher.channel # <<>> \/ SenderDropped(watcher)
    /\ watcher' = IF watcher.channel # <<>>
                  THEN [watcher EXCEPT !.channel = Tail(watcher.channel),
                                       !.received = watcher.received + 1,
                                       !.task = "sleep"]
                  ELSE [watcher EXCEPT !.task = "ended"]
    /\ UNCHANGED <<policyVars, executorVars, lookup, tool, net, legacy>>

\* tokio::time::sleep(WATCHER_DEBOUNCE_MS) is over
DebounceSleepEnds ==
    /\ watcher.task = "sleep"
    /\ watcher' = [watcher EXCEPT !.task = "drain", !.epoch = watcher.epoch + 1]
    /\ UNCHANGED <<policyVars, executorVars, lookup, tool, net, legacy>>

\* the try_recv loop runs until the channel is empty
DebounceDrain ==
    /\ watcher.task = "drain"
    /\ watcher' = [watcher EXCEPT
                      !.task = "reload",
                      !.channel = Drained(watcher.channel),
                      !.coalesced = watcher.coalesced
                                      + Len(watcher.channel) - Len(Drained(watcher.channel))]
    /\ UNCHANGED <<policyVars, executorVars, lookup, tool, net, legacy>>

\* engine_for_reload.reload() is entered
DebounceReload ==
    /\ watcher.task = "reload"
    /\ loader.pc = "idle"
    /\ loader' = [LoadEntered EXCEPT !.again = ~dirty]
    /\ dirty' = FALSE
    /\ watcher' = [watcher EXCEPT !.task = "reloading", !.reloads = watcher.reloads + 1]
    /\ UNCHANGED <<executorVars, lookup, tool, net, legacy, sources, policyDir, policyFile, state, req,
                   lastInstall, modeHistory, editsLeft, reloadsLeft>>

\* a task that empties the channel once more when reload() has returned
AfterReloadDrained(w) == [w EXCEPT !.task = "recv", !.channel = <<>>]

\* the end of the loop body: the task is back at reload_signal_rx.recv()
AfterReload(w) == [w EXCEPT !.task = "recv"]

\* reload() has returned; the task goes back to recv
DebounceReloaded ==
    /\ watcher.task = "reloading"
    /\ loader.pc = "idle"
    /\ watcher' = AfterReload(watcher)
    /\ UNCHANGED <<policyVars, executorVars, lookup, tool, net, legacy>>

NextWatcher ==
    \/ \E c \in Callers : StartWatcherEnter(c)
    \/ \E c \in Callers : StartWatcherExchange(c)
    \/ \E c \in Callers : StartWatcherSpawnTask(c)
    \/ \E c \in Callers : StartWatcherSpawnThread(c)
    \/ \E ok \in BOOLEAN : NotifierNew(ok)
    \/ \E ok \in BOOLEAN : NotifierWatch(ok)
    \/ \E ok \in BOOLEAN : NotifierEvent(ok)
    \/ DebounceRecv
    \/ DebounceSleepEnds
    \/ DebounceDrain
    \/ DebounceReload
    \/ ReloadCompile
    \/ ReloadInstall
    \/ DebounceReloaded

SpecWatcher == InitWatcher /\ [][NextWatcher]_vars

(***************************************************************************)
(* SpecWatcherLive: the watcher with the policy directory changing under   *)
(* the registered watch.  Every change is reported to the notifier thread  *)
(* once; events no change stands for (and event errors) remain possible.   *)
(***************************************************************************)
InitWatcherLive ==
    /\ Constructed({srcs \in SourcesSet : srcs.policy_dir # None /\ srcs.policy_file = None},
                   {BundleDir, DirWith("syntax_error", "cmd_echo")}, {None})
    /\ editsLeft = MaxEdits
    /\ reloadsLeft = 0
    /\ envs = IdleEnvs
    /\ capture = IdleCapture
    /\ raw = IdleRaw
    /\ remote = IdleRemote
    /\ lookup = IdleLookup
    /\ watcher = [IdleWatcher EXCEPT !.eventsLeft = 1]
    /\ tool = IdleTool
    /\ net = IdleNet
    /\ legacy = IdleLegacy

\* a file of the watched directory is written or removed, or the directory is
\* removed, while the watch is registered
WatchedEdit ==
    /\ watcher.thread = "events"
    /\ \/ \E f \in DirFiles : \E text \in FileTexts(f) : WritePolicyFile(f, text)
       \/ \E f \in DirFiles : RemovePolicyFile(f)
       \/ RemovePolicyDir

\* event_rx.recv() returns the event of a change not yet reported
NotifierChange ==
    /\ watcher.thread = "events"
    /\ watcher.notified < MaxEdits - editsLeft
    /\ watcher' = [Signalled(watcher) EXCEPT
                      !.notified = watcher.notified + 1,
                      !.duringReload = watcher.duringReload
                                         + (IF watcher.task = "reloading" THEN 1 ELSE 0)]
    /\ UNCHANGED <<policyVars, executorVars, lookup, tool, net, legacy>>

\* the steps of the debounce task
DebounceTaskStep ==
    \/ DebounceRecv
    \/ DebounceSleepEnds
    \/ DebounceDrain
    \/ DebounceReload
    \/ ReloadCompile
    \/ ReloadInstall
    \/ DebounceReloaded

NextWatcherLive ==
    \/ NextWatcher
    \/ WatchedEdit
    \/ NotifierChange

\* the runtime schedules the debounce task, whose sleep ends, and the notifier
\* thread receives the events of the changes
WatcherFairness ==
    /\ WF_vars(DebounceTaskStep)
    /\ WF_vars(NotifierChange)

SpecWatcherLive == InitWatcherLive /\ [][NextWatcherLive]_vars /\ WatcherFairness

(***************************************************************************)
(* SpecNetwork: resolve_network_settings of the cladding CLI over one      *)
(* subnet.  A u32 is the pair of its high and low 16 bits, so that sums    *)
(* keep their 32-bit width; an address string is the u32 ipv4_to_int       *)
(* returns for it.                                                         *)
(***************************************************************************)
Half == 2^16

\* x with its n low bits cleared, and set, for a 16-bit x
ClearLow(x, n) == x - (x % 2^n)

SetLow(x, n) == ClearLow(x, n) + 2^n - 1

\* subnet_ip_int & subnet_mask_int, the mask being 0 for prefix 0 and
\* !0u32 << (32 - prefix) otherwise
AndMask(ip, prefix) ==
    IF 32 - prefix >= 16 THEN << ClearLow(ip[1], 16 - prefix), 0 >>
    ELSE << ip[1], ClearLow(ip[2], 32 - prefix) >>

\* subnet_network_int | !subnet_mask_int
OrNotMask(network, prefix) ==
    IF 32 - prefix >= 16 THEN << SetLow(network[1], 16 - prefix), Half - 1 >>
    ELSE << network[1], SetLow(network[2], 32 - prefix) >>

\* x + k on u32 for a small k: the wrapped sum, and whether it overflowed
AddU32(x, k) ==
    LET lo == x[2] + k
        hi == x[1] + (lo \div Half)
    IN  [overflow |-> hi >= Half, value |-> << hi % Half, lo % Half >>]

\* a >= b on u32
GeqU32(a, b) == a[1] > b[1] \/ (a[1] = b[1] /\ a[2] >= b[2])

\* int_to_ipv4: the four octets
IntToIpv4(x) == << x[1] \div 256, x[1] % 256, x[2] \div 256, x[2] % 256 >>

\* ipv4_to_int of four octets
Ipv4ToInt(o) == << o[1] * 256 + o[2], o[3] * 256 + o[4] >>

\* the subnets tried: addresses at both ends of the address space and inside it,
\* with every prefix length and one past the last
SubnetAddresses ==
    { Ipv4ToInt(<<a, b, c, d>>) :
         a \in {0, 10, 255}, b \in {0, 90, 255}, c \in {0, 255},
         d \in {0, 1, 7, 250, 251, 252, 255} }

SubnetPrefixes == 0..33

\* how the build treats an overflowing sum: overflow-checks panic, or wrap
Builds == {"checked", "wrapping"}

\* resolve_network_settings from the prefix range test on
ResolveNetworkSettings(ip, prefix, build) ==
    IF prefix > 32 THEN Err(Text("invalid subnet prefix"))
    ELSE LET network == AndMask(ip, prefix)
             broadcast == OrNotMask(network, prefix)
             proxy == AddU32(network, 2)
             sandbox == AddU32(network, 3)
             cli == AddU32(network, 4)
         IN  IF build = "checked" /\ (proxy.overflow \/ sandbox.overflow \/ cli.overflow)
             THEN Err(Text("panic: attempt to add with overflow"))
             ELSE IF GeqU32(cli.value, broadcast) THEN Err(Text("subnet too small"))
             ELSE Ok([network_subnet |-> << IntToIpv4(network), prefix >>,
                      proxy_ip |-> IntToIpv4(proxy.value),
                      sandbox_ip |-> IntToIpv4(sandbox.value),
                      cli_ip |-> IntToIpv4(cli.value)])

InitNetwork ==
    /\ InitEngineAtRest
    /\ envs = IdleEnvs
    /\ capture = IdleCapture
    /\ raw = IdleRaw
    /\ remote = IdleRemote
    /\ lookup = IdleLookup
    /\ watcher = IdleWatcher
    /\ tool = IdleTool
    /\ legacy = IdleLegacy
    /\ \E ip \in SubnetAddresses : \E prefix \in SubnetPrefixes : \E build \in Builds :
          net = [IdleNet EXCEPT !.pc = "resolve", !.ip = ip, !.prefix = prefix,
                                !.build = build]

\* resolve_network_settings returns, or panics
NetworkResolve ==
    /\ net.pc = "resolve"
    /\ net' = [net EXCEPT !.pc = "done",
                          !.result = Some(ResolveNetworkSettings(net.ip, net.prefix,
                                                                 net.build))]
    /\ UNCHANGED <<policyVars, executorVars, lookup, watcher, tool, legacy>>

NextNetwork == NetworkResolve

SpecNetwork == InitNetwork /\ [][NextNetwork]_vars

(***************************************************************************)
(* SpecTool: run_network_tool_impl after the spawn: the child writing to   *)
(* its two pipes and exiting, the two read_limited tasks, the wait and the *)
(* joins, and the cancellation of the call.  Output is counted in bytes.   *)
(***************************************************************************)
\* the amounts a child writes to one stream: nothing, a little, more than the cap
ToolOutputs == {0, PipeCapacity + 1, MAX_OUTPUT_BYTES + 2}

Min(a, b) == IF a < b THEN a ELSE b

\* a child handle dropped without kill_on_drop
LeftRunningOnDrop(child) == child

\* the child handle is dropped: kill_on_drop(true) kills a child still running
KilledOnDrop(child) == IF child = "running" THEN "killed" ELSE child

\* reader tasks that are started once the wait is over
ReaderAfterWait(t) == t.pc # "wait"

\* tokio::spawn(read_limited(..)) before child.wait(): the reader tasks run while
\* the call waits
ReaderMayRun(t) == TRUE

\* the child has closed its end of the pipes
PipesClosed(t) == t.child \in {"exited", "killed"}

InitTool ==
    /\ InitEngineAtRest
    /\ envs = IdleEnvs
    /\ capture = IdleCapture
    /\ raw = IdleRaw
    /\ remote = IdleRemote
    /\ lookup = IdleLookup
    /\ watcher = IdleWatcher
    /\ net = IdleNet /\ legacy = IdleLegacy
    /\ \E out \in ToolOutputs : \E err \in ToolOutputs :
          tool = [IdleTool EXCEPT !.pc = "wait", !.child = "running",
                                  !.left = [s \in OutputStreams |->
                                               IF s = "stdout" THEN out ELSE err],
                                  !.reader = [s \in OutputStreams |-> "reading"]]

\* the child writes to one of its pipes as far as there is room
ToolChildWrites(s) ==
    /\ tool.child = "running"
    /\ tool.left[s] > 0
    /\ tool.pipe[s] < PipeCapacity
    /\ \E k \in 1..Min(tool.left[s], PipeCapacity - tool.pipe[s]) :
          tool' = [tool EXCEPT !.left[s] = tool.left[s] - k, !.pipe[s] = tool.pipe[s] + k]
    /\ UNCHANGED <<policyVars, executorVars, lookup, watcher, net, legacy>>

\* the child has written everything and exits
ToolChildExits ==
    /\ tool.child = "running"
    /\ \A s \in OutputStreams : tool.left[s] = 0
    /\ tool' = [tool EXCEPT !.child = "exited"]
    /\ UNCHANGED <<policyVars, executorVars, lookup, watcher, net, legacy>>

\* one pass of the read_limited loop with bytes_read > 0: the bytes are kept up to
\* the cap and read and dropped once truncated
ToolReaderReads(s) ==
    /\ ReaderMayRun(tool)
    /\ tool.reader[s] = "reading"
    /\ tool.pipe[s] > 0
    /\ \E n \in 1..Min(tool.pipe[s], ReadBufferLen) :
          tool' = [tool EXCEPT
                      !.pipe[s] = tool.pipe[s] - n,
                      !.captured[s] =
                          IF tool.truncated[s] THEN tool.captured[s]
                          ELSE Min(tool.captured[s] + n, MAX_OUTPUT_BYTES),
                      !.truncated[s] =
                          tool.truncated[s] \/ n > MAX_OUTPUT_BYTES - tool.captured[s]]
    /\ UNCHANGED <<policyVars, executorVars, lookup, watcher, net, legacy>>

\* bytes_read == 0: the pipe is empty and closed; read_limited returns
ToolReaderEof(s) ==
    /\ ReaderMayRun(tool)
    /\ tool.reader[s] = "reading"
    /\ tool.pipe[s] = 0
    /\ PipesClosed(tool)
    /\ tool' = [tool EXCEPT !.reader[s] = "done"]
    /\ UNCHANGED <<policyVars, executorVars, lookup, watcher, net, legacy>>

\* child.wait().await returns the status
ToolWaitReturns ==
    /\ tool.pc = "wait"
    /\ tool.child = "exited"
    /\ tool' = [tool EXCEPT !.pc = "join_stdout", !.status = Some("exited")]
    /\ UNCHANGED <<policyVars, executorVars, lookup, watcher, net, legacy>>

\* child.wait().await fails: the ? returns ToolError::Wait and drops the child
ToolWaitFails ==
    /\ tool.pc = "wait"
    /\ tool' = [tool EXCEPT !.pc = "failed", !.child = KilledOnDrop(tool.child)]
    /\ UNCHANGED <<policyVars, executorVars, lookup, watcher, net, legacy>>

\* stdout_task.await, then stderr_task.await; the call returns its output
ToolJoin(s) ==
    /\ tool.pc = (IF s = "stdout" THEN "join_stdout" ELSE "join_stderr")
    /\ tool.reader[s] = "done"
    /\ tool' = [tool EXCEPT !.pc = IF s = "stdout" THEN "join_stderr" ELSE "returned",
                            !.joined = Append(tool.joined, s)]
    /\ UNCHANGED <<policyVars, executorVars, lookup, watcher, net, legacy>>

\* the call is cancelled at one of its awaits: the future is dropped, and the
\* child handle with it
ToolCancel ==
    /\ tool.pc \in {"wait", "join_stdout", "join_stderr"}
    /\ tool' = [tool EXCEPT !.pc = "cancelled", !.cancelled_at = tool.pc,
                            !.child = KilledOnDrop(tool.child)]
    /\ UNCHANGED <<policyVars, executorVars, lookup, watcher, net, legacy>>

NextTool ==
    \/ \E s \in OutputStreams : ToolChildWrites(s)
    \/ ToolChildExits
    \/ \E s \in OutputStreams : ToolReaderReads(s)
    \/ \E s \in OutputStreams : ToolReaderEof(s)
    \/ ToolWaitReturns
    \/ ToolWaitFails
    \/ \E s \in OutputStreams : ToolJoin(s)
    \/ ToolCancel

\* the runtime schedules the child, the reader tasks and the call itself; nothing
\* obliges a cancellation or a failure of the wait
ToolFairness ==
    /\ \A s \in OutputStreams : WF_vars(ToolChildWrites(s))
    /\ WF_vars(ToolChildExits)
    /\ \A s \in OutputStreams : WF_vars(ToolReaderReads(s))
    /\ \A s \in OutputStreams : WF_vars(ToolReaderEof(s))
    /\ WF_vars(ToolWaitReturns)
    /\ \A s \in OutputStreams : WF_vars(ToolJoin(s))

SpecTool == InitTool /\ [][NextTool]_vars /\ ToolFairness

(***************************************************************************)
(* validate_legacy_invocation called on a loaded legacy policy.  The       *)
(* policies are of two families: one rule for echo over every list of at   *)
(* most MaxChecks arg checks, and every list of at most MaxRules of the    *)
(* rules LegacyRules.                                                      *)
(***************************************************************************)
MaxChecks == 2

MaxRules == 3

MaxLegacyArgs == 2

\* the arg checks of the model
ArgChecks ==
    { [type |-> t[1], value |-> t[2], position |-> position, required |-> required] :
        t \in { <<"exact", "ok">>, <<"regex", ".*">>, <<"regex", "^o.$">>,
                <<"hash", "digest-ok">> },
        position \in {None} \cup {Some(i) : i \in 0..(MaxLegacyArgs - 1)},
        required \in {None, Some(FALSE), Some(TRUE)} }

\* the sequences over a set with at most n elements
SeqsUpTo(S, n) == UNION { [1..k -> S] : k \in 0..n }

\* rules for the second family: two commands, with and without arg checks
LegacyRules ==
    { [command |-> <<"echo">>,
       args |-> << [type |-> "exact", value |-> "ok",
                    position |-> Some(0), required |-> Some(TRUE)] >>,
       env |-> {}],
      [command |-> <<"echo">>, args |-> <<>>, env |-> {"FLAG"}],
      [command |-> <<"echo">>,
       args |-> << [type |-> "regex", value |-> ".*",
                    position |-> None, required |-> None] >>,
       env |-> {}],
      [command |-> <<"ls">>, args |-> <<>>, env |-> {}] }

LegacyPolicies ==
    { << [command |-> <<"echo">>, args |-> checks, env |-> allowed] >> :
        checks \in SeqsUpTo(ArgChecks, MaxChecks), allowed \in {{}, {"FLAG"}} }
    \cup SeqsUpTo(LegacyRules, MaxRules)

LegacyCommands == { <<"echo">>, <<"ls">>, <<"cat">> }

LegacyArgLists == SeqsUpTo({"ok", "no"}, MaxLegacyArgs)

InitLegacy ==
    /\ InitEngineAtRest
    /\ envs = IdleEnvs
    /\ capture = IdleCapture
    /\ raw = IdleRaw
    /\ remote = IdleRemote
    /\ lookup = IdleLookup
    /\ watcher = IdleWatcher
    /\ tool = IdleTool
    /\ net = IdleNet
    /\ \E policy \in LegacyPolicies : \E command \in LegacyCommands :
       \E args \in LegacyArgLists : \E env \in UserEnvs :
          /\ LoadPolicy(Some(LegacyFile("policy", policy))).ok
          /\ legacy = [IdleLegacy EXCEPT !.pc = "validate", !.policy = policy,
                                         !.command = command, !.args = args,
                                         !.env = env]

\* validate_legacy_invocation returns
LegacyValidate ==
    /\ legacy.pc = "validate"
    /\ legacy' = [legacy EXCEPT
                     !.pc = "done",
                     !.result = Some(ValidateLegacyInvocation(legacy.policy, legacy.command,
                                                              legacy.args, legacy.env))]
    /\ UNCHANGED <<policyVars, executorVars, lookup, watcher, tool, net>>

NextLegacy == LegacyValidate

SpecLegacy == InitLegacy /\ [][NextLegacy]_vars

(***************************************************************************)
(* Properties of the policy engine.                                        *)
(***************************************************************************)
\* the input the request in progress hands to the policy
RequestInput == EvaluationInput(req.command, Unwrap(req.path), req.args, req.env)

\* validate_invocation has returned for the request in progress
ValidationReturned == req.pc \in {"spawn", "done"} /\ req.seen # {}

\* validate_invocation has returned after consulting a snapshot
ValidationDecided == req.pc \in {"spawn", "done"} /\ req.snapshot # None

\* C1: every failed policy load leaves DenyAll installed, carrying the error
\* text and no artifact: after a failed initial load in from_sources and after
\* a failed reload(), whatever was installed before.
C1_FailedLoadInstallsDenyAll ==
    ~lastInstall.ok =>
        /\ state.mode = "DenyAll"
        /\ state.deny_reason = Some(lastInstall.error)
        /\ state.rego = None
        /\ state.legacy_json = None

\* C1 witness: a failed reload has replaced a live Rego snapshot by DenyAll
C1_Witness ==
    /\ Len(modeHistory) >= 2
    /\ modeHistory[Len(modeHistory) - 1] = "Rego"
    /\ ~lastInstall.ok
    /\ state.mode = "DenyAll"

C3_SpawnOnlyAfterAllowed ==
    /\ (req.spawned # "no" \/ req.pc = "spawn")
          => /\ req.kind \in {"tool", "raw"}
             /\ req.result = Some(Allowed)
             /\ req.snapshot # None
             /\ Unwrap(req.snapshot) \in req.seen
             /\ ValidateSnapshot(Unwrap(req.snapshot), RequestInput) = Allowed
    /\ (req.result # None /\ req.result # Some(Allowed))
          => req.spawned = "no" /\ req.pc # "spawn" /\ req.child = None

\* C3 witness: a raw request has spawned its child
C3_Witness == req.kind = "raw" /\ req.spawned = "yes" /\ req.child # None

\* C4: against a live Rego snapshot the result is Ok exactly when the allow
\* query is true, CommandNotAllowed(command) when it is false, and
\* PolicyEvaluationFailed{command, details} when the evaluation raises.
C4_RegoOutcomesDistinct ==
    (ValidationDecided /\ Unwrap(req.snapshot).mode = "Rego"
                       /\ Unwrap(req.snapshot).rego # None)
    => LET evaluation == RegoEvaluate(Unwrap(Unwrap(req.snapshot).rego), RequestInput)
           result == Unwrap(req.result)
       IN  /\ result = Allowed <=> evaluation = Ok(TRUE)
           /\ evaluation = Ok(FALSE) => result = CommandNotAllowed(req.command)
           /\ ~evaluation.ok
                 => result = PolicyEvaluationFailed(req.command, evaluation.error)

\* C4 witness: an evaluation raised and was reported as PolicyEvaluationFailed
C4_Witness ==
    /\ ValidationDecided
    /\ Unwrap(req.snapshot).mode = "Rego"
    /\ Unwrap(req.result).type = "PolicyEvaluationFailed"

\* a snapshot is one of the three whole shapes, its artifact fully built
WholeSnapshot(s) ==
    CASE s.mode = "Rego" ->
           /\ s.rego # None /\ s.legacy_json = None /\ s.deny_reason = None
           /\ Len(Unwrap(s.rego).engine) = Unwrap(s.rego).module_count
           /\ Unwrap(s.rego).module_count > 0
      [] s.mode = "LegacyJson" ->
           s.rego = None /\ s.legacy_json # None /\ s.deny_reason = None
      [] s.mode = "DenyAll" ->
           s.rego = None /\ s.legacy_json = None /\ s.deny_reason # None

\* C5: under every interleaving with reload(), the decision of a validation
\* is the decision of one snapshot that was installed during the validation,
\* and every such snapshot is whole: not a mix of two, not a partial artifact.
C5_DecisionAgainstOneSnapshot ==
    /\ \A s \in req.seen \cup {state} : WholeSnapshot(s)
    /\ ValidationDecided
          => \E s \in req.seen :
                 /\ s = Unwrap(req.snapshot)
                 /\ Unwrap(req.result) = ValidateSnapshot(s, RequestInput)

\* C5 witness: a validation was decided against the snapshot it had read
\* while a reload installed a different one after the read
C5_Witness ==
    /\ ValidationDecided
    /\ Cardinality(req.seen) = 2
    /\ Unwrap(req.snapshot) # state
    /\ Unwrap(req.snapshot).mode = "Rego"
    /\ Unwrap(req.result) = Allowed

\* C6: once a reload has run over the sources as they now are, the installed
\* snapshot is the one those sources load to, whatever was installed before
\* (DenyAll exactly when they fail to load, the live artifact when they load),
\* and a validation against it is refused with PolicyUnavailable in the first
\* case and allowed in the second when the policy allows the command.
C6_ReloadFollowsSources ==
    (loader.pc = "idle" /\ ~dirty)
    => /\ state = FromSources(sources, policyDir, policyFile)
       /\ Mode = "DenyAll" <=> ~LoadPolicySnapshot(sources, policyDir, policyFile).ok
       /\ (ValidationDecided /\ Unwrap(req.snapshot) = state)
             => /\ Mode = "DenyAll" => Unwrap(req.result).type = "PolicyUnavailable"
                /\ (Mode = "Rego" /\ RegoEvaluate(Unwrap(state.rego), RequestInput) = Ok(TRUE))
                      => Unwrap(req.result) = Allowed

\* C6 witness: a live policy allowing echo was replaced by DenyAll on a failed
\* reload and restored by the next reload, and echo validates again
C6_Witness ==
    /\ modeHistory = <<"Rego", "DenyAll", "Rego">>
    /\ loader.pc = "idle" /\ ~dirty
    /\ ValidationDecided
    /\ Unwrap(req.snapshot) = state
    /\ req.command = <<"echo">>
    /\ Unwrap(req.result) = Allowed

(***************************************************************************)
(* Properties of the executor.                                             *)
(***************************************************************************)
ProxyKeys == {"http_proxy", "https_proxy", "no_proxy"}

\* the broker variable an enforced key of the child takes its value from
BrokerSource(k) ==
    CASE k = "HTTP_PROXY" -> "http_proxy"
      [] k = "HTTPS_PROXY" -> "https_proxy"
      [] k = "NO_PROXY" -> "no_proxy"
      [] OTHER -> k

EnforcedKeys == {"PATH"} \cup ProxyKeys \cup {"HTTP_PROXY", "HTTPS_PROXY", "NO_PROXY"}

\* C7: for one broker environment and the env maps of two callers, the two
\* child environments agree on PATH and on the six proxy keys, in value and
\* in absence; each of the seven keys is present exactly when its broker
\* source is set (PATH for PATH, the lowercase variable for a proxy key of
\* either case) and then has the broker's value of that source, whatever the
\* caller supplied.
C7_EnforcedKeysFromBrokerOnly ==
    envs.pc = "done" =>
        \A k \in EnforcedKeys :
            /\ k \in DOMAIN envs.command[1] <=> k \in DOMAIN envs.command[2]
            /\ \A i \in 1..2 :
                  /\ k \in DOMAIN envs.command[i] <=> BrokerSource(k) \in DOMAIN envs.broker
                  /\ k \in DOMAIN envs.command[i]
                        => envs.command[i][k] = envs.broker[BrokerSource(k)]

\* C7 witness: one caller supplied PATH and the other HTTP_PROXY while the
\* broker has http_proxy set and PATH unset
C7_Witness ==
    /\ envs.pc = "done"
    /\ "PATH" \in DOMAIN envs.user[1]
    /\ "HTTP_PROXY" \in DOMAIN envs.user[2]
    /\ "http_proxy" \in DOMAIN envs.broker
    /\ "PATH" \notin DOMAIN envs.broker
    /\ "PATH" \notin DOMAIN envs.command[1]
    /\ envs.command[1]["HTTP_PROXY"] = BrokerValue("http_proxy")

\* C8: in the child environment every key the caller supplied other than the
\* seven enforced ones has the caller's value (HOME and LANG included); HOME
\* and LANG the caller did not supply are the broker's, present exactly when
\* the broker has them; and there is no other key outside the enforced ones.
C8_CallerWinsElsewhere ==
    envs.pc = "done" =>
        \A i \in 1..2 :
            LET child == envs.command[i]
                user == envs.user[i]
            IN  /\ \A k \in DOMAIN user \ EnforcedKeys :
                       k \in DOMAIN child /\ child[k] = user[k]
                /\ \A k \in {"HOME", "LANG"} \ DOMAIN user :
                       /\ k \in DOMAIN child <=> k \in DOMAIN envs.broker
                       /\ k \in DOMAIN child => child[k] = envs.broker[k]
                /\ DOMAIN child \subseteq DOMAIN user \cup {"HOME", "LANG"} \cup EnforcedKeys

\* C8 witness: a caller overrode the broker's HOME, and a variable of the
\* broker that is neither HOME nor LANG stayed out of the child
C8_Witness ==
    /\ envs.pc = "done"
    /\ {"HOME", "CUSTOM"} \subseteq DOMAIN envs.broker
    /\ "HOME" \in DOMAIN envs.user[1]
    /\ envs.command[1]["HOME"] = CallerValue(1, "HOME")
    /\ envs.command[2]["HOME"] = BrokerValue("HOME")
    /\ "CUSTOM" \notin DOMAIN envs.command[1]

\* the first n elements of a sequence
Prefix(seq, n) == SubSeq(seq, 1, IF n < Len(seq) THEN n ELSE Len(seq))

\* the text ends with the marker
EndsWithMarker(text) ==
    /\ Len(text) >= Len(TRUNCATION_MARKER)
    /\ SubSeq(text, Len(text) - Len(TRUNCATION_MARKER) + 1, Len(text)) = TRUNCATION_MARKER

\* read_limited read the stream to its end and returned its first
\* min(N, MAX_OUTPUT_BYTES) bytes, truncated set exactly when N exceeds the cap
CaptureExact ==
    /\ capture.pos = Len(capture.stream)
    /\ capture.output = Prefix(capture.stream, MAX_OUTPUT_BYTES)
    /\ capture.truncated <=> Len(capture.stream) > MAX_OUTPUT_BYTES

\* C9 as stated: the capture is exact and the response string ends with the
\* marker if and only if truncated is set.
C9_MarkerIffTruncated ==
    capture.pc = "done" =>
        /\ CaptureExact
        /\ EndsWithMarker(capture.response) <=> capture.truncated

\* C9 amended: the capture is exact, and the response string is the decoded
\* capture followed by the marker when truncated is set and the decoded
\* capture alone when it is not (so it ends with the marker whenever truncated
\* is set; untruncated output may itself end in the marker's words).
C9_MarkerAppendedIffTruncated ==
    /\ capture.pc \in {"returned", "done"} => CaptureExact
    /\ capture.pc = "done" =>
          /\ Prefix(capture.response, Len(capture.output)) = FromUtf8Lossy(capture.output)
          /\ capture.truncated =>
                /\ EndsWithMarker(capture.response)
                /\ Len(capture.response) = MAX_OUTPUT_BYTES + Len(TRUNCATION_MARKER)
          /\ ~capture.truncated => Len(capture.response) = Len(capture.stream)

\* C9 witness: a stream one byte over the cap was captured and finalized
C9_Witness ==
    /\ capture.pc = "done"
    /\ Len(capture.stream) = MAX_OUTPUT_BYTES + 1
    /\ capture.truncated
    /\ Len(capture.output) = MAX_OUTPUT_BYTES
    /\ EndsWithMarker(capture.response)

(***************************************************************************)
(* Properties of the raw endpoint.                                         *)
(***************************************************************************)
\* C10: the events emitted so far are, at every moment, start first and only
\* first, then stdout and stderr events, then at most one exit or error with
\* nothing after it; and the handler goes past its first send with start
\* emitted unless the client had gone by then (nothing is emitted at all).
C10_EventShape ==
    /\ raw.emitted # <<>> =>
          /\ raw.emitted[1] = "start"
          /\ \A i \in 2..Len(raw.emitted) : raw.emitted[i] # "start"
          /\ \A i \in 1..(Len(raw.emitted) - 1) : raw.emitted[i] \notin {"exit", "error"}
          /\ \A i \in 2..(Len(raw.emitted) - 1) : raw.emitted[i] \in OutputStreams
    /\ raw.emitted = <<>> =>
          \/ raw.pc \in {"idle", "request", "responded", "send_start"}
          \/ raw.pc = "returned" /\ raw.client = "gone"

\* C10 witness: both streams produced events, a failed wait ended the stream
\* with an error event, and a reader was still running
C10_Witness ==
    /\ raw.pc = "returned"
    /\ Len(raw.emitted) >= 4
    /\ raw.emitted[Len(raw.emitted)] = "error"
    /\ \E i, j \in 2..(Len(raw.emitted) - 1) :
          raw.emitted[i] = "stdout" /\ raw.emitted[j] = "stderr"
    /\ \E s \in OutputStreams : raw.readers[s] = "reading"

\* the events of one stream among the first n emitted
RECURSIVE EmittedOf(_, _)
EmittedOf(stream, n) ==
    IF n = 0 THEN 0
    ELSE EmittedOf(stream, n - 1) + (IF raw.emitted[n] = stream THEN 1 ELSE 0)

ExitEmitted == \E i \in 1..Len(raw.emitted) : raw.emitted[i] = "exit"

\* C11: once exit is emitted, both readers have reached end of file and
\* returned, the child has been waited for, nothing read is left in the reader
\* channel or in the handler, and every chunk either reader read was emitted
\* before the exit, which is the last event.
C11_ExitAfterEofAndWait ==
    ExitEmitted =>
       /\ raw.emitted[Len(raw.emitted)] = "exit"
       /\ raw.stdout_done /\ raw.stderr_done
       /\ raw.exit_code # None /\ raw.child = "reaped"
       /\ raw.queue = <<>> /\ raw.pending = None
       /\ \A s \in OutputStreams :
             /\ raw.readers[s] = "returned"
             /\ raw.chunksLeft[s] = 0
             /\ EmittedOf(s, Len(raw.emitted) - 1) = raw.written[s]

\* C11 witness: exit emitted after two reads of each stream
C11_Witness ==
    /\ ExitEmitted
    /\ \A s \in OutputStreams :
          raw.written[s] = MaxChunks /\ EmittedOf(s, Len(raw.emitted)) = MaxChunks

\* the decoded payloads of one stream among the first n events, concatenated
RECURSIVE DecodedOutput(_, _)
DecodedOutput(stream, n) ==
    IF n = 0 THEN <<>>
    ELSE DecodedOutput(stream, n - 1) \o
         (IF raw.emitted[n] = stream THEN B64Decode(raw.data[n].data_b64).value ELSE <<>>)

RawStatus ==
    CASE raw.payload = "bad" -> BAD_REQUEST
      [] req.spawned = "failed" -> INTERNAL_SERVER_ERROR
      [] req.spawned = "no" -> FORBIDDEN
      [] \E s \in OutputStreams : ~raw.pipes[s] -> INTERNAL_SERVER_ERROR
      [] OTHER -> OK

\* C13: a request answered has the status of its failure: 400 for a payload
\* that does not parse, 403 for a validation rejection, 500 for a failed spawn
\* or a missing pipe, each with an error body, no event emitted and no child
\* left running; 200 only with the child spawned and both pipes taken, and
\* events are emitted only under 200.
C13_PreflightStatus ==
    /\ raw.pc \notin {"idle", "request"} => raw.http = Some(RawStatus)
    /\ raw.pc = "responded" =>
          /\ raw.http # Some(OK)
          /\ raw.error # None
          /\ raw.emitted = <<>>
          /\ raw.child # "running"
    /\ raw.http = Some(FORBIDDEN) =>
          /\ req.result # None
          /\ Unwrap(req.result) # Allowed
    /\ raw.http = Some(OK) =>
          /\ req.spawned = "yes"
          /\ Unwrap(req.result) = Allowed
          /\ \A s \in OutputStreams : raw.pipes[s]
    /\ raw.emitted # <<>> => raw.http = Some(OK)

\* C13 witness: a request denied by the policy is answered 403
C13_Witness ==
    /\ raw.pc = "responded"
    /\ raw.http = Some(FORBIDDEN)
    /\ req.result # None
    /\ req.resolved # None

\* C14: a handler that returned on a failed send has returned with the kill
\* of the child made and without exit among the events, and a handler that
\* has returned emits no further event.
C14_DisconnectKills ==
    /\ [](raw.ended = "disconnect" =>
             /\ raw.pc = "returned"
             /\ raw.client = "gone"
             /\ raw.child \in {"killed", "reaped"}
             /\ ~ExitEmitted)
    /\ [][raw.ended = "disconnect" =>
             raw'.emitted = raw.emitted /\ raw'.ended = raw.ended]_vars

\* C14 witness: the client went away after a chunk, the next send failed
C14_Witness ==
    /\ raw.ended = "disconnect"
    /\ Len(raw.emitted) >= 2
    /\ raw.child = "killed"

ErrorsEmitted == {i \in 1..Len(raw.emitted) : raw.emitted[i] = "error"}

\* C15: a handler ended by a failed read or a failed wait has returned, the
\* child does not run any more, no exit was emitted, and with the client still
\* there one error event was emitted and is the last event; with the client
\* gone the error event is lost and nothing follows the events before it.
C15_RuntimeFailureEndsWithError ==
    raw.ended \in {"read_error", "wait_error"} =>
       /\ raw.pc = "returned"
       /\ raw.child # "running"
       /\ ~ExitEmitted
       /\ ErrorsEmitted \subseteq {Len(raw.emitted)}
       /\ raw.client = "connected" => ErrorsEmitted = {Len(raw.emitted)}

\* C15 witness: the wait failed while the child ran, after a chunk was sent
C15_Witness ==
    /\ raw.ended = "wait_error"
    /\ raw.child = "killed"
    /\ raw.status = None
    /\ Len(raw.emitted) >= 3
    /\ raw.emitted[Len(raw.emitted)] = "error"

(***************************************************************************)
(* Properties of the remote client.                                        *)
(***************************************************************************)
\* run_remote_from_env has returned
RemoteReturned == remote.pc \in {"returned", "exited"}

\* start, then stdout and stderr events with base64 payloads, then exit
ReplayableBody(lines) ==
    /\ Len(lines) >= 2
    /\ lines[1].type = "start"
    /\ lines[Len(lines)].type = "exit"
    /\ \A i \in 2..(Len(lines) - 1) :
          lines[i].type \in OutputStreams /\ B64Decode(lines[i].data_b64).ok

\* the decoded payloads of the events of one stream, concatenated in order
RECURSIVE DecodedPayloads(_, _)
DecodedPayloads(stream, lines) ==
    IF lines = <<>> THEN <<>>
    ELSE (IF Head(lines).type = stream THEN B64Decode(Head(lines).data_b64).value ELSE <<>>)
         \o DecodedPayloads(stream, Tail(lines))

\* C16: for a 2xx response whose body is start, stdout and stderr events and
\* exit, a client that returns without a transport or write failure has
\* written to each output the decoded payloads of that stream in order and
\* returns the code of the exit event, 1 when the event has none; it fails in
\* no other way.
C16_ReplayExact ==
    (/\ RemoteReturned
     /\ ReplayableBody(remote.lines)
     /\ \A status \in remote.response : IsSuccess(status)) =>
       LET result == Unwrap(remote.result)
       IN  /\ result.ok =>
                /\ \A s \in OutputStreams :
                      remote.out[s] = DecodedPayloads(s, remote.lines)
                /\ result.value =
                      (IF remote.lines[Len(remote.lines)].exit_code = None
                       THEN 1
                       ELSE Unwrap(remote.lines[Len(remote.lines)].exit_code))
           /\ ~result.ok => result.error.type \in {"Request", "OutputWrite"}

\* C16 witness: start, stdout, stderr and an exit without a code replayed,
\* the process exited 1
C16_Witness ==
    /\ remote.pc = "exited"
    /\ Len(remote.lines) = 4
    /\ ReplayableBody(remote.lines)
    /\ remote.lines[4].exit_code = None
    /\ remote.out["stdout"] = <<104, 105>>
    /\ remote.out["stderr"] = <<255, 0>>
    /\ remote.status = Some(1)

\* C17 as stated: the process exits 125 exactly when run_remote_from_env
\* returned an error.
C17_Exit125IffFailure ==
    remote.pc = "exited" =>
       (remote.status = Some(LOCAL_FAILURE_EXIT_CODE) <=> ~Unwrap(remote.result).ok)

\* C17: the process exits 125 whenever run_remote_from_env returned an error
\* of any kind, and otherwise with the code of the exit event it handled, 1
\* when that event has none; that code may be 125 itself.
C17_FailureExits125 ==
    remote.pc = "exited" =>
       LET result == Unwrap(remote.result)
       IN  /\ ~result.ok => remote.status = Some(LOCAL_FAILURE_EXIT_CODE)
           /\ result.ok =>
                /\ remote.handled # <<>>
                /\ remote.handled[Len(remote.handled)].type = "exit"
                /\ remote.status =
                      (IF remote.handled[Len(remote.handled)].exit_code = None
                       THEN Some(1)
                       ELSE remote.handled[Len(remote.handled)].exit_code)

\* C17 witness: an output write failed after the start event, the process
\* exited 125
C17_Witness ==
    /\ remote.pc = "exited"
    /\ remote.status = Some(LOCAL_FAILURE_EXIT_CODE)
    /\ Unwrap(remote.result).ok = FALSE
    /\ Unwrap(remote.result).error.type = "OutputWrite"
    /\ remote.saw_start

\* the events handled before the i-th hold no start
BeforeStart(i) == \A j \in 1..(i - 1) : remote.handled[j].type # "start"

\* C18 as stated: a stdout, stderr or exit event handled before any start
\* event ends the stream with a protocol error, nothing written.
C18_StartRequiredFirst ==
    \A i \in 1..Len(remote.handled) :
       remote.handled[i].type \in {"stdout", "stderr", "exit"} /\ BeforeStart(i) =>
          /\ i = Len(remote.handled)
          /\ remote.result # None
          /\ ~Unwrap(remote.result).ok
          /\ Unwrap(remote.result).error.type = "Protocol"
          /\ \A s \in OutputStreams : remote.out[s] = <<>>

\* a line that is no event, a payload that is not base64, an error event
FailingEvent(event) ==
    \/ event = NoEvent
    \/ event.type = "error"
    \/ event.type \in OutputStreams /\ ~B64Decode(event.data_b64).ok

\* C19: a handled line that is not an event, that carries a payload that is
\* not base64, or that is an error event is the last line handled and the
\* client has returned an error (Protocol, or RemoteRuntime for the error
\* event), no exit code recorded; a body that ends with no exit code recorded
\* returns an error, "stream ended before exit event" when its last line did
\* not fail by itself; and the process then exits 125.
C19_StreamFailuresEndInError ==
    /\ \A i \in 1..Len(remote.handled) :
          FailingEvent(remote.handled[i]) =>
             /\ i = Len(remote.handled)
             /\ RemoteReturned
             /\ ~Unwrap(remote.result).ok
             /\ Unwrap(remote.result).error.type =
                   (IF remote.handled[i].type = "error" THEN "RemoteRuntime" ELSE "Protocol")
             /\ remote.exit_code = None
             /\ remote.pc = "exited" => remote.status = Some(LOCAL_FAILURE_EXIT_CODE)
    /\ remote.eof /\ remote.exit_code = None =>
          /\ ~Unwrap(remote.result).ok
          /\ remote.pc = "exited" => remote.status = Some(LOCAL_FAILURE_EXIT_CODE)
          /\ \/ remote.handled = <<>>
             \/ remote.handled[Len(remote.handled)].type \in {"start", "stdout", "stderr"}
                /\ ~FailingEvent(remote.handled[Len(remote.handled)])
                /\ Unwrap(remote.result).error.type # "OutputWrite"
             => Unwrap(remote.result).error =
                   RemoteClientError("Protocol", "stream ended before exit event")

\* C19 witness: the body ended after start and a stdout event, the process
\* exited 125
C19_Witness ==
    /\ remote.pc = "exited"
    /\ remote.eof
    /\ Len(remote.handled) = 2
    /\ remote.handled[2].type = "stdout"
    /\ remote.out["stdout"] = <<104, 105>>
    /\ Unwrap(remote.result).error.message = "stream ended before exit event"
    /\ remote.status = Some(LOCAL_FAILURE_EXIT_CODE)

\* C20 as stated: a client that has received a whole event after the exit
\* event it handled returns a protocol error, not the exit code.
C20_EventsAfterExitRejected ==
    /\ RemoteReturned
    /\ remote.exit_code # None
    /\ NewlineIndex(remote.buffer, 1) > 1
    /\ FromJson(SubSeq(remote.buffer, 1, NewlineIndex(remote.buffer, 1) - 1)).ok
    => /\ ~Unwrap(remote.result).ok
       /\ Unwrap(remote.result).error.type = "Protocol"

\* the response came back with a status that is not 2xx and was looked at
Rejected ==
    /\ remote.sent
    /\ remote.response # None
    /\ Unwrap(remote.response) \notin 200..299

\* C21: once a response whose status is not 2xx has been looked at, the client
\* has returned an error without handling any line of the body, reading any
\* chunk or writing anything; the error is ServerRejected with the status and,
\* as its message, the error field of a body that is an error object and the
\* trimmed body otherwise (a Request error when the body could not be read);
\* and the process exits 125.
C21_RejectedResponseNotReplayed ==
    Rejected =>
       LET error == Unwrap(remote.result).error
       IN  /\ RemoteReturned
           /\ ~Unwrap(remote.result).ok
           /\ remote.handled = <<>> /\ remote.pos = 0 /\ remote.buffer = <<>>
           /\ \A s \in OutputStreams : remote.out[s] = <<>>
           /\ error.type \in {"ServerRejected", "Request"}
           /\ error.type = "ServerRejected" =>
                 /\ error.status = remote.response
                 /\ error.detail =
                       (IF Trim(remote.text) = <<"{\"error\":", "blocked", "}">>
                        THEN <<"blocked">>
                        ELSE Trim(remote.text))
                 /\ error.detail = <<>> \/
                       (Head(error.detail) \notin WhiteSpace
                        /\ error.detail[Len(error.detail)] \notin WhiteSpace)
           /\ remote.pc = "exited" => remote.status = Some(LOCAL_FAILURE_EXIT_CODE)

\* C21 witness: a 403 whose body reads as an event stream was rejected with
\* the trimmed body as the message, and the process exited 125
C21_Witness ==
    /\ Rejected
    /\ remote.pc = "exited"
    /\ remote.response = Some(FORBIDDEN)
    /\ remote.lines = StreamLines
    /\ Unwrap(remote.result).error.type = "ServerRejected"
    /\ Len(Unwrap(remote.result).error.detail) = 5
    /\ remote.status = Some(LOCAL_FAILURE_EXIT_CODE)

\* the position of the first "--" of the arguments, 0 without one
FirstDelimiter ==
    IF \A i \in 1..Len(remote.args) : remote.args[i] # <<"--">> THEN 0
    ELSE CHOOSE i \in 1..Len(remote.args) :
            /\ remote.args[i] = <<"--">>
            /\ \A j \in 1..(i - 1) : remote.args[j] # <<"--">>

\* an argument of the form --keep-env=...
KeepEnvAssignment(arg) == arg # <<>> /\ Head(arg) = "--keep-env="

\* the argument at position i stands where an option is expected: it is the
\* first, or follows a --keep-env=... option, or follows the value of a
\* --keep-env option
RECURSIVE OptionExpectedAt(_)
OptionExpectedAt(i) ==
    \/ i = 1
    \/ i >= 2 /\ OptionExpectedAt(i - 1) /\ KeepEnvAssignment(remote.args[i - 1])
    \/ i >= 3 /\ OptionExpectedAt(i - 2) /\ remote.args[i - 2] = <<"--keep-env">>

\* the options before the delimiter that parse_args cannot accept
BadOptions ==
    {i \in 1..(FirstDelimiter - 1) :
        /\ OptionExpectedAt(i)
        /\ ~KeepEnvAssignment(remote.args[i])
        /\ remote.args[i] = <<"--keep-env">> => i + 1 = FirstDelimiter}

\* C22: once the arguments are parsed, the client has failed with
\* MissingDelimiter when there is no "--"; otherwise with the error of the
\* first argument before the first "--" that is neither --keep-env with its
\* value nor --keep-env=..., which is MissingKeepEnvValue for a --keep-env
\* right before the delimiter and UnknownOption naming the argument for
\* anything else; otherwise with MissingExecutable when nothing follows the
\* delimiter; and otherwise the request names the argument after the first
\* "--" as the executable and all later arguments, unchanged and in order.
C22_ArgumentGrammar ==
    remote.pc # "main" /\ remote.pc # "idle" =>
       LET args == remote.args
           failed == remote.result # None /\ ~Unwrap(remote.result).ok
           error == Unwrap(remote.result).error
           grammar == {"MissingDelimiter", "UnknownOption", "MissingKeepEnvValue",
                       "MissingExecutable"}
       IN  CASE FirstDelimiter = 0 -> failed /\ error.type = "MissingDelimiter"
             [] FirstDelimiter # 0 /\ BadOptions # {} ->
                  LET bad == CHOOSE i \in BadOptions : \A j \in BadOptions : i <= j
                  IN  /\ failed
                      /\ IF args[bad] = <<"--keep-env">>
                         THEN error.type = "MissingKeepEnvValue"
                         ELSE error.type = "UnknownOption" /\ error.detail = args[bad]
             [] FirstDelimiter # 0 /\ BadOptions = {} /\ FirstDelimiter = Len(args) ->
                  failed /\ error.type = "MissingExecutable"
             [] OTHER ->
                  /\ failed => error.type \notin grammar
                  /\ remote.payload # None =>
                        /\ Unwrap(remote.payload).executable = args[FirstDelimiter + 1]
                        /\ Unwrap(remote.payload).args =
                              SubSeq(args, FirstDelimiter + 2, Len(args))

\* C22 witness: a later "--" and a later --keep-env passed through to the
\* remote command
C22_Witness ==
    /\ remote.args = << <<"--">>, <<"echo">>, <<"--">>, <<"--keep-env">> >>
    /\ remote.payload # None
    /\ Unwrap(remote.payload).executable = <<"echo">>
    /\ Unwrap(remote.payload).args = << <<"--">>, <<"--keep-env">> >>

\* C23: with the arguments parsed and the server URL resolved, a keep-env
\* list whose names are all set locally gives a request whose env holds
\* exactly those names with their local values; a list with a name that is
\* not set makes the client fail with MissingLocalEnv naming every missing
\* name, sorted and separated by ", ", and no request is ever sent.
C23_KeepEnvAllOrNothing ==
    /\ remote.pc \notin {"idle", "main"}
    /\ ParseArgs(remote.args).ok
    /\ ResolveServerUrl(remote.url).ok
    => LET keep_env == ParseArgs(remote.args).value.keep_env
           names == {keep_env[i] : i \in 1..Len(keep_env)}
           unset == {n \in names : n \notin DOMAIN remote.local}
       IN  IF unset = {}
           THEN remote.cwd # None =>
                   /\ remote.payload # None
                   /\ DOMAIN Unwrap(remote.payload).env = names
                   /\ \A n \in names : Unwrap(remote.payload).env[n] = remote.local[n]
           ELSE /\ remote.result # None
                /\ ~Unwrap(remote.result).ok
                /\ Unwrap(remote.result).error.type = "MissingLocalEnv"
                /\ Unwrap(remote.result).error.detail =
                      Join(SelectSeq(NameOrder, LAMBDA n : n \in unset))
                /\ ~remote.sent
                /\ remote.payload = None

\* C23 witness: BETA and ALPHA are kept in that order and neither is set; the
\* error names both, ALPHA first, and the process exited without a request
C23_Witness ==
    /\ remote.pc = "exited"
    /\ ~remote.sent
    /\ DOMAIN remote.local = {"GAMMA"}
    /\ Unwrap(remote.result).error.type = "MissingLocalEnv"
    /\ Unwrap(remote.result).error.detail = <<"ALPHA", ", ", "BETA">>

(***************************************************************************)
(* Properties of executable resolution.                                    *)
(***************************************************************************)
\* C24: for a command without a path separator, the path resolved, the path
\* given to the policy as `path` and the path executed are all <dir>/<command>
\* of the first directory in PATH order whose entry is a regular file with an
\* execute bit, a symlink being kept as the link's own path; resolution fails
\* when no directory has such an entry or PATH is unset
C24_PathLookupKeepsTheLink ==
    (lookup.pc \in {"validate", "failed", "spawn", "spawned"} /\ ~ContainsSlash(lookup.command))
    => LET found == IF lookup.path = None THEN None
                    ELSE FirstOnPath(lookup.cwd, Unwrap(lookup.path), lookup.command)
       IN  /\ Unwrap(lookup.resolved).ok <=> found # None
           /\ Unwrap(lookup.resolved).ok => Unwrap(lookup.resolved).value = Unwrap(found)
           /\ (lookup.policy_path # None /\ Unwrap(lookup.policy_path).ok)
                 => Unwrap(lookup.policy_path).value = Unwrap(found)
           /\ lookup.program # None => Unwrap(lookup.program) = Unwrap(found)

\* C25: whenever resolution succeeds, the path handed to the policy and the
\* path handed to the spawn are absolute and name a regular file with an
\* execute bit, for every command, working directory and PATH value, relative
\* and empty PATH entries included
C25_ResolvedPathAbsoluteExecutable ==
    LET sound(p) == IsAbsolute(p) /\ ExecutableCandidate(Located(lookup.cwd, p))
    IN  /\ (lookup.resolved # None /\ Unwrap(lookup.resolved).ok)
              => sound(Unwrap(lookup.resolved).value)
        /\ (lookup.policy_path # None /\ Unwrap(lookup.policy_path).ok)
              => sound(Unwrap(lookup.policy_path).value)
        /\ lookup.program # None => sound(Unwrap(lookup.program))

(***************************************************************************)
(* Properties of the policy input.                                         *)
(***************************************************************************)
\* C26: the input value given to the policy has exactly the fields command,
\* path, hash, args and env: command is the caller's token, path the resolved
\* path, hash the SHA-256 of the file, args and env the caller's values
C26_PolicyInputFields ==
    req.pc = "evaluate"
    => LET input == EvaluationInput(req.command, Unwrap(req.path), req.args, req.env)
       IN  /\ input.command = req.command
           /\ input.path = Unwrap(req.path)
           /\ input.args = req.args
           /\ input.env = req.env
           /\ DOMAIN input = {"command", "path", "hash", "args", "env"}

(***************************************************************************)
(* Properties of the policy watcher.                                       *)
(***************************************************************************)
\* C27: the debounce task makes exactly one reload() call for each signal its
\* recv() returns, never one without such a signal, and when it makes the call
\* every signal sent before the end of its sleep is gone from the channel
C27_DebounceCoalesces ==
    /\ watcher.reloads = IF watcher.task \in {"sleep", "drain", "reload"}
                         THEN watcher.received - 1
                         ELSE watcher.received
    /\ watcher.task \in {"reload", "reloading"}
          => \A i \in 1..Len(watcher.channel) : watcher.channel[i] >= watcher.epoch

\* C27 witness: one reload() call so far, made after a burst of three signals of
\* which the drain removed two
C27_Witness ==
    /\ watcher.task = "reloading"
    /\ watcher.reloads = 1
    /\ watcher.received = 1
    /\ watcher.coalesced = 2
    /\ watcher.eventsLeft = 0

\* C28: once the notifier could not be constructed or the watch could not be
\* registered, and the debounce task has acted on it, the engine holds a
\* DenyAll snapshot, whatever the policy directory holds
C28_WatcherFailureDeniesAll ==
    (watcher.failure # None /\ watcher.task = "ended") => state.mode = "DenyAll"

\* C29: however the calls of start_watcher interleave, at most one debounce
\* task and one notifier thread are started and at most one call gets past the
\* flag; without a policy directory nothing is started and the flag stays unset
C29_StartWatcherOnce ==
    /\ watcher.tasks <= 1
    /\ watcher.threads <= 1
    /\ Cardinality({c \in Callers : watcher.calls[c] \in {"spawn_task", "spawn_thread"}}) <= 1
    /\ (\A c \in Callers : watcher.calls[c] = "returned" /\ sources.policy_dir # None)
          => watcher.tasks = 1 /\ watcher.threads = 1 /\ watcher.started
    /\ sources.policy_dir = None
          => ~watcher.started /\ watcher.tasks = 0 /\ watcher.threads = 0

\* C29 witness: both calls have returned, one having started the task and the
\* thread while the other was between its entry and the flag
C29_Witness ==
    /\ \A c \in Callers : watcher.calls[c] = "returned"
    /\ watcher.tasks = 1
    /\ watcher.threads = 1
    /\ watcher.started

(***************************************************************************)
(* Properties of reload().                                                 *)
(***************************************************************************)
\* the inputs of validate_invocation whose executable resolves
ResolvableInputs ==
    { EvaluationInput(c, PolicyResolveExecutablePath(c).value, a, e) :
         c \in {x \in Commands : PolicyResolveExecutablePath(x).ok},
         a \in ArgLists, e \in UserEnvs }

\* C30: a reload() of sources that have not changed since the load before it
\* began leaves mode() and the result of validate_invocation for every input
\* as they were, whether the sources load or fail to load
C30_ReloadIdempotent ==
    [][(loader.pc = "install" /\ loader.again /\ ~dirty /\ loader'.pc = "idle")
          => /\ state'.mode = state.mode
             /\ \A input \in ResolvableInputs :
                    ValidateSnapshot(state', input) = ValidateSnapshot(state, input)]_vars

\* C30 witness: a second reload() of sources that fail to load, unchanged since
\* the first one began, has its result ready to write over the DenyAll snapshot
\* the first one installed
C30_Witness ==
    /\ loader.pc = "install"
    /\ loader.again
    /\ ~dirty
    /\ ~Unwrap(loader.load).ok
    /\ reloadsLeft = MaxReloads - 2
    /\ modeHistory = <<"Rego", "DenyAll">>

(***************************************************************************)
(* Properties of the proxy settings of the child.                          *)
(***************************************************************************)
\* the lowercase and the uppercase name of each proxy variable
ProxyNames ==
    { <<"http_proxy", "HTTP_PROXY">>, <<"https_proxy", "HTTPS_PROXY">>,
      <<"no_proxy", "NO_PROXY">> }

\* C31: for each of the http, https and no proxy settings, when the broker has
\* the variable set in its lowercase or in its uppercase form, the child
\* environment carries a value of the broker for that setting
C31_ProxiesInheritedEitherCase ==
    envs.pc = "done"
    => \A i \in 1..2 : \A names \in ProxyNames :
          (\E b \in {names[1], names[2]} : b \in DOMAIN envs.broker)
          => \E k \in {names[1], names[2]} : \E b \in {names[1], names[2]} :
                /\ k \in DOMAIN envs.command[i]
                /\ b \in DOMAIN envs.broker
                /\ envs.command[i][k] = envs.broker[b]

(***************************************************************************)
(* Properties of the network settings.                                     *)
(***************************************************************************)
\* a > b on u32
GreaterU32(a, b) == GeqU32(a, b) /\ a # b

\* C40: for every address and every prefix length 0..32 resolve_network_settings
\* neither overflows nor returns an address outside the subnet: it fails, or
\* returns network+2, network+3 and network+4, each above the network address
\* and below the broadcast address
C40_AddressesInsideSubnet ==
    (net.pc = "done" /\ net.prefix <= 32)
    => LET result == Unwrap(net.result)
           network == AndMask(net.ip, net.prefix)
           broadcast == OrNotMask(network, net.prefix)
           inside(o) == /\ GreaterU32(Ipv4ToInt(o), network)
                        /\ GreaterU32(broadcast, Ipv4ToInt(o))
       IN  /\ ~result.ok => result.error.msg \in {"subnet too small"}
           /\ result.ok => /\ inside(result.value.proxy_ip)
                           /\ inside(result.value.sandbox_ip)
                           /\ inside(result.value.cli_ip)

(***************************************************************************)
(* Properties of the buffered tool call.                                   *)
(***************************************************************************)
\* C32: a buffered call cancelled while it waits for the child or joins a
\* reader task has dropped the child handle, and its child is not running
C32_CancelKillsChild ==
    tool.pc = "cancelled" => tool.child \in {"killed", "exited"}

\* C32 witness: a call cancelled while waiting for a child that still had
\* output to write, and the child killed
C32_Witness ==
    /\ tool.pc = "cancelled"
    /\ tool.cancelled_at = "wait"
    /\ tool.child = "killed"
    /\ tool.left["stdout"] > 0

\* C38: the call comes to an end whatever the child writes and in whatever
\* order: the child is never left blocked on a full pipe, and the wait result
\* is collected before either capture is joined
C38_NoDeadlockOnOutput ==
    /\ <>(tool.pc \in {"returned", "failed", "cancelled"})
    /\ <>(tool.child # "running")
    /\ [](tool.joined # <<>> => tool.status # None)

\* C38 witness: the call has returned after a child wrote more than the cap to
\* both streams; both captures are truncated and both pipes are drained
C38_Witness ==
    /\ tool.pc = "returned"
    /\ tool.joined = <<"stdout", "stderr">>
    /\ \A s \in OutputStreams :
          /\ tool.truncated[s]
          /\ tool.captured[s] = MAX_OUTPUT_BYTES
          /\ tool.pipe[s] = 0

(***************************************************************************)
(* Properties of the policy sources.                                       *)
(***************************************************************************)
\* C33: with a policy directory configured the installed snapshot is Rego or
\* DenyAll and holds no legacy rules, DenyAll whenever the directory failed to
\* load, whatever the legacy policy file holds; and a request is allowed only
\* by the Rego policy of the snapshot it was evaluated against
C33_DirectoryTakesPrecedence ==
    sources.policy_dir # None
    => /\ state.mode \in {"Rego", "DenyAll"}
       /\ state.legacy_json = None
       /\ ~lastInstall.ok => state.mode = "DenyAll"
       /\ (req.pc = "done" /\ req.result # None /\ Unwrap(req.result).type = "Ok")
             => /\ Unwrap(req.snapshot).mode = "Rego"
                /\ RegoEvaluate(Unwrap(Unwrap(req.snapshot).rego),
                                EvaluationInput(req.command, Unwrap(req.path),
                                                req.args, req.env)).ok
                /\ RegoEvaluate(Unwrap(Unwrap(req.snapshot).rego),
                                EvaluationInput(req.command, Unwrap(req.path),
                                                req.args, req.env)).value

\* C33 witness: with both sources configured, a request the legacy file would
\* allow has been denied by the Rego policy of the directory
C33_Witness ==
    /\ sources.policy_dir # None
    /\ sources.policy_file # None
    /\ policyFile # None
    /\ req.pc = "done"
    /\ req.result # None
    /\ Unwrap(req.result).type = "CommandNotAllowed"
    /\ Unwrap(policyFile).kind = "policy"
    /\ ValidateLegacyInvocation(Unwrap(policyFile).policy, req.command, req.args,
                                req.env).type = "Ok"

(***************************************************************************)
(* Properties of the legacy JSON policy.                                   *)
(***************************************************************************)
\* C34: validate_legacy_invocation returns Ok exactly when some rule naming the
\* command accepts the args and the env, CommandNotAllowed exactly when no rule
\* names the command, and otherwise RuleValidationFailed whose rule_count is
\* the number of rules naming the command
C34_LegacyDecisionIsOr ==
    legacy.pc = "done"
    => LET result == Unwrap(legacy.result)
           naming == { k \in 1..Len(legacy.policy) :
                          legacy.policy[k].command = legacy.command }
           accepting == { k \in naming :
                             RuleVerdict(legacy.policy[k], legacy.args, legacy.env).ok }
       IN  /\ result.type = "Ok" <=> accepting # {}
           /\ result.type = "CommandNotAllowed" <=> naming = {}
           /\ (naming # {} /\ accepting = {})
                 => /\ result.type = "RuleValidationFailed"
                    /\ result.rule_count = Cardinality(naming)

\* C34 witness: two of three rules name the command and both reject it
C34_Witness ==
    /\ legacy.pc = "done"
    /\ Len(legacy.policy) = 3
    /\ Unwrap(legacy.result).type = "RuleValidationFailed"
    /\ Unwrap(legacy.result).rule_count = 2

\* C35: a rule accepts an invocation exactly when the args are empty if it has
\* no arg checks, every argument at index i matches a check whose position is
\* unset or i, every required check is matched (at its position when it has
\* one, by any argument otherwise) and every env key is in the rule's allowlist
C35_RuleAcceptance ==
    legacy.pc = "done"
    => LET args == legacy.args
           accepts(rule) ==
               /\ rule.args = <<>> => args = <<>>
               /\ \A i \in 1..Len(args) : \E c \in 1..Len(rule.args) :
                     /\ rule.args[c].position \in {None, Some(i - 1)}
                     /\ CheckArg(args[i], rule.args[c])
               /\ \A c \in 1..Len(rule.args) :
                     rule.args[c].required = Some(TRUE)
                     => IF rule.args[c].position = None
                        THEN \E i \in 1..Len(args) : CheckArg(args[i], rule.args[c])
                        ELSE \E i \in 1..Len(args) :
                                /\ rule.args[c].position = Some(i - 1)
                                /\ CheckArg(args[i], rule.args[c])
               /\ DOMAIN legacy.env \subseteq rule.env
       IN  /\ \A k \in 1..Len(legacy.policy) :
                 RuleVerdict(legacy.policy[k], args, legacy.env).ok
                 <=> accepts(legacy.policy[k])
           /\ Unwrap(legacy.result).type = "Ok"
              <=> \E k \in 1..Len(legacy.policy) :
                     /\ legacy.policy[k].command = legacy.command
                     /\ accepts(legacy.policy[k])

\* C35 witness: a rule with two checks, one required at position 1, has
\* accepted two arguments and a caller variable
C35_Witness ==
    /\ legacy.pc = "done"
    /\ Len(legacy.policy) = 1
    /\ Len(legacy.policy[1].args) = 2
    /\ \E c \in 1..2 : /\ legacy.policy[1].args[c].required = Some(TRUE)
                       /\ legacy.policy[1].args[c].position = Some(1)
    /\ \E c \in 1..2 : legacy.policy[1].args[c].position = Some(0)
    /\ Len(legacy.args) = 2
    /\ DOMAIN legacy.env # {}
    /\ Unwrap(legacy.result).type = "Ok"

(***************************************************************************)
(* Properties of the raw stream under fair scheduling.                     *)
(***************************************************************************)
\* C36: once the streaming response is accepted, the exit event is eventually
\* emitted unless the client went away, a pipe failed to read or the wait
\* failed; and the exit event carries the child's exit code, null for a signal
C36_ExitEventuallyEmitted ==
    /\ [](raw.http = Some(OK)
          => <>(\/ ExitEmitted
                \/ raw.client = "gone"
                \/ raw.ended \in {"wait_error", "read_error"}))
    /\ [](ExitEmitted
          => /\ raw.status # None
             /\ raw.data[Len(raw.data)].exit_code = Unwrap(raw.status)
             /\ raw.stdout_done /\ raw.stderr_done)

\* C36 witness: a child killed by a signal, having written all its chunks to
\* both pipes, has its exit event with a null code in the response body
C36_Witness ==
    /\ ExitEmitted
    /\ raw.status = Some(None)
    /\ raw.client = "connected"
    /\ \A s \in OutputStreams : raw.written[s] = MaxChunks
    /\ Len(raw.emitted) = 2 + 2 * MaxChunks
    /\ raw.data[Len(raw.data)].exit_code = None

(***************************************************************************)
(* Properties of the watcher under fair scheduling.                        *)
(***************************************************************************)
\* the installed snapshot is the one loading the sources as they are yields
Converged == state = SnapshotOfLoad(LoadPolicySnapshot(sources, policyDir, policyFile))

\* C37: a signal in the reload channel is followed by the start of a reload(),
\* whatever the debounce task is doing when it arrives; and once the changes
\* have ended the engine installs the snapshot of the final directory content
\* and keeps it
C37_WatcherConverges ==
    /\ (watcher.channel # <<>>) ~> (watcher.task = "reload")
    /\ <>[]Converged

\* C37 witness: after a change made while a reload was executing, and with
\* every change used up, a later reload has installed the final content
C37_Witness ==
    /\ editsLeft = 0
    /\ watcher.notified = MaxEdits
    /\ watcher.duringReload > 0
    /\ watcher.channel = <<>>
    /\ watcher.task = "recv"
    /\ watcher.reloads >= 2
    /\ modeHistory[1] # state.mode
    /\ Converged

(***************************************************************************)
(* Properties of the remote client's decoding.                             *)
(***************************************************************************)
\* process_stream over a body that arrives as one chunk; ended tells whether
\* the end of the body has been seen
Unchunked(body, ended) ==
    LET fresh == [remote EXCEPT !.buffer = body, !.saw_start = FALSE, !.exit_code = None,
                                !.out = [s \in OutputStreams |-> <<>>],
                                !.handled = <<>>, !.result = None]
        drained == DrainLines(fresh)
        last == IF drained.result = None /\ ended /\ drained.buffer # <<>>
                THEN HandleEventLine([drained EXCEPT !.buffer = <<>>], drained.buffer)
                ELSE drained
    IN  IF last.result = None /\ ended
        THEN [last EXCEPT !.result = Some(StreamEndResult(last.exit_code))]
        ELSE last

\* C39: however the body received so far was split into chunks, the client has
\* handled the events, written the bytes, kept the unfinished line and reached
\* the result that the same bytes arriving as one chunk give
C39_ChunkingIndependent ==
    (/\ remote.pc \in {"stream", "returned", "exited"}
     /\ remote.sent
     /\ remote.response # None
     /\ \A s \in OutputStreams : remote.writable[s]
     /\ remote.result # None
        => (Unwrap(remote.result).ok \/ Unwrap(remote.result).error.type # "Request"))
    => (IsSuccess(Unwrap(remote.response))
        => LET one == Unchunked(SubSeq(Wire(remote.lines), 1, remote.pos), remote.eof)
           IN  /\ remote.handled = one.handled
               /\ remote.out = one.out
               /\ remote.result = one.result
               /\ remote.buffer = one.buffer
               /\ remote.saw_start = one.saw_start
               /\ remote.exit_code = one.exit_code)

\* C39 witness: a body of MaxEvents lines, its last line the exit event without
\* a trailing newline, has been replayed to the end with bytes written
C39_Witness ==
    /\ remote.pc = "returned"
    /\ remote.eof
    /\ Len(remote.lines) = MaxEvents
    /\ remote.pos = Len(Wire(remote.lines)) - 1
    /\ remote.out["stdout"] # <<>>
    /\ Len(remote.handled) = MaxEvents
    /\ remote.result = Some(Ok(7))

====
